---------------------------- MODULE Spec2Model ----------------------------
(***************************************************************************)
(* Model of the activity board of multipurpose-display: the door grid, the *)
(* selection cursor, the animations, the redraw bookkeeping and the finite *)
(* state machine of ActivityBoard.run (src/activity_board.py), with the    *)
(* flags of Door (src/door.py).                                            *)
(*                                                                         *)
(* One action is one step of run(): the START branch, one step of the      *)
(* intro loop, one pygame.event.get(), the handling of one event of the    *)
(* list that get() returned, or the return.  The program looks at a queued *)
(* event only when the for loop reaches it, so the queue and the list are  *)
(* kept as the number of events they hold and the event itself is an input *)
(* of the step that handles it.                                            *)
(*                                                                         *)
(* Specifications:                                                         *)
(*   Spec       run() on a board already constructed                       *)
(*   SpecSel    _get_new_selection on its own                              *)
(*   SpecNew    ActivityBoard.__init__ on its own                          *)
(*   SpecBoard  __init__ followed by run()                                 *)
(*   SpecDoor   Door.get_door_surface on its own                           *)
(*   SpecMain   the loop of main() (src/main.py)                           *)
(*   SpecVideo  MediaPlayer._show_video (src/media_player.py)              *)
(*   SpecTranslate  _translate_action on its own, with the joystick        *)
(*   SpecImage  MediaPlayer._show_image on its own                         *)
(*   SpecText   TextRenderer.render_surface (src/text_renderer.py)         *)
(*   SpecPlayer  MediaPlayer.run and the loop of main() that calls it      *)
(*   SpecPlayerFair  SpecPlayer with a thread that goes on when it can     *)
(***************************************************************************)
EXTENDS Integers, Sequences, FiniteSets, TLC

VARIABLES
    doors_horiz,      \* ActivityBoard._doors_horiz
    doors_vert,       \* ActivityBoard._doors_vert
    start_hidden,     \* ActivityBoard._start_hidden
    doors,            \* ActivityBoard._doors: index -> Door
    state,            \* ActivityBoard._state
    selected_door,    \* local selected_door of run(), as an index of doors
    play_again,       \* local play_again of run()
    pc,               \* position of the control thread inside __init__ and run()
    branch,           \* the elif branch of run() whose for loop is running
    batch,            \* events left in the list pygame.event.get() returned
    queue,            \* events waiting in the pygame event queue
    intro_show_list,  \* local intro_show_list of _animate_intro
    result,           \* the value run() returned
    sound,            \* the cue the last step played (_play_random_sound)
    passes,           \* the redraw passes the last step made, in order
    frames,           \* the frames _animate_open drew in the last step
    action,           \* local action of run(): the action the last step handled
    game_end,         \* the action that set GAME_OVER and the state it was handled in
    sel_action,       \* SpecSel: the direction given to _get_new_selection
    sel_result,       \* SpecSel: the index _get_new_selection returned
    surface,          \* the surface given to __init__: its width and height
    activity_file,    \* the lines of config['activity_file']
    activities,       \* ActivityBoard._activities, the list _build_door_list consumes
    door_list,        \* local doors of _build_door_list
    raised,           \* the exception that ended __init__
    discarded,        \* events the pygame.event.clear() of the last step threw away
    drawn_door,       \* SpecDoor: the Door given to _draw_door
    door_surface,     \* SpecDoor: local door_surface of _draw_door
    main_pc,          \* SpecMain: position of the control thread inside main()
    main_play_again,  \* SpecMain: local play_again of main()
    player,           \* SpecMain: local player of main(), as the number of the object
    board,            \* SpecMain: local board of main(), as the number of the object
    objects,          \* SpecMain: MediaPlayer and ActivityBoard objects constructed so far
    boards,           \* SpecMain: the objects that are ActivityBoards
    ran,              \* SpecMain: the objects whose run() was called
    last_run,         \* SpecMain: the last run() that returned, and its value
    video_pc,         \* SpecVideo: position of the control thread inside _show_video
    proc,             \* SpecVideo: the omxplayer process: its return code, who killed it
    video_quit,       \* SpecVideo: what the last _check_for_quit returned
    video_sleeps,     \* SpecVideo: the time.sleep(0.5) calls made so far
    killall,          \* SpecVideo: the runs of /usr/bin/killall omxplayer.bin so far
    video_result,     \* SpecVideo: the value _show_video returned
    tr_pc,            \* SpecTranslate: position of the control thread inside _translate_action
    tr_event,         \* SpecTranslate: the argument event of _translate_action
    held,             \* SpecTranslate: the buttons Joystick.get_button reports down
    monotonic,        \* SpecTranslate: what time.monotonic() returns, in seconds
    timestamp,        \* SpecTranslate: local timestamp of _translate_action
    back_up,          \* SpecTranslate: get_button(BTN_BACK) returned False since timestamp was taken
    read_at,          \* SpecTranslate: when get_button(BTN_BACK) last returned True since then
    tr_result,        \* SpecTranslate: the value _translate_action returned
    image_pc,         \* SpecImage: position of the control thread inside _show_image
    screen,           \* SpecImage: MediaPlayer._width and MediaPlayer._height
    img,              \* SpecImage: local img of _show_image: its width, height and bit size
    blit,             \* SpecImage: the blit of line 154: the size of img and where it went
    image_error,      \* SpecImage: the exception that ended _show_image
    text_pc,          \* SpecText: position of the control thread inside render_surface
    text,             \* SpecText: the argument text of render_surface
    line_spacing,     \* SpecText: TextRenderer.line_spacing
    text_lines,       \* SpecText: local text_lines of render_surface
    text_surfaces,    \* SpecText: local text_surfaces: the size of each rendered line
    total_height,     \* SpecText: local total_height of render_surface
    max_width,        \* SpecText: local max_width of render_surface
    text_surface,     \* SpecText: local text_surface: its size and the blits made on it
    line_y,           \* SpecText: local y of render_surface
    run_pc,           \* SpecPlayer: position of the control thread inside main() and MediaPlayer.run()
    today,            \* SpecPlayer: the date of the day, as month and day
    announcement_data,\* SpecPlayer: the items of the announcement file
    photo_dir,        \* SpecPlayer: the photos of the folder by name: whether each has the size of the screen
    video_dir,        \* SpecPlayer: the number of videos of the folder
    current_date,     \* SpecPlayer: local current_date of run()
    announcements,    \* SpecPlayer: local announcements of run()
    photos,           \* SpecPlayer: local photos of run()
    videos,           \* SpecPlayer: local videos of run(), as their number
    photo,            \* SpecPlayer: the place in photos of the for loop of run()
    pending,          \* SpecPlayer: the events waiting in the pygame event queue
    sleeps_left,      \* SpecPlayer: the sleeps after which the wait loop running is over
    display,          \* SpecPlayer: what was last put on the screen
    shown,            \* SpecPlayer: the photos this call of run() has shown
    run_result        \* SpecPlayer: the value run() returned, by its name

\* the variables of the specification of _get_new_selection
selVars == <<sel_action, sel_result>>

\* the arguments and locals of __init__
initVars == <<surface, activity_file, activities, door_list, raised>>

\* the variables of the specification of Door.get_door_surface
renderVars == <<drawn_door, door_surface>>

\* the locals of main()
mainVars == <<main_pc, main_play_again, player, board, objects, boards, ran,
              last_run>>

\* the locals of MediaPlayer._show_video and the process it starts
videoVars == <<video_pc, proc, video_quit, video_sleeps, killall, video_result>>

\* the argument and locals of _translate_action, the joystick and the clock
pressVars == <<tr_pc, tr_event, held, monotonic, timestamp, back_up, read_at,
               tr_result>>

\* the arguments and locals of MediaPlayer._show_image
imageVars == <<image_pc, screen, img, blit, image_error>>

\* the arguments and locals of TextRenderer.render_surface
textVars == <<text_pc, text, line_spacing, text_lines, text_surfaces,
              total_height, max_width, text_surface, line_y>>

\* the files and the clock MediaPlayer.run reads, its locals, and the
\* event queue
runVars == <<run_pc, today, announcement_data, photo_dir, video_dir,
             current_date, announcements, photos, videos, photo, pending,
             sleeps_left, display, shown, run_result>>

\* the variables of the specifications of _show_image, render_surface and
\* MediaPlayer.run
others == <<imageVars, textVars, runVars>>

\* the variables of the specifications of the functions checked on their own
besides == <<videoVars, pressVars, others>>

\* what a step of run() never writes
aside == <<selVars, initVars, renderVars, mainVars, besides>>

vars == <<doors_horiz, doors_vert, start_hidden, doors, state, selected_door,
          play_again, pc, branch, batch, queue, intro_show_list, result,
          sound, passes, frames, action, game_end, discarded, selVars,
          initVars, renderVars, mainVars, besides>>

----------------------------------------------------------------------------
(* Bounds of the model *)

\* most events the pygame event queue holds at a time
MaxQueue == 2
\* largest grid of the specification of _get_new_selection
MaxHoriz == 4
MaxVert == 4

\* largest width and height of the surface given to __init__
MaxSurface == 2
\* most lines of the activity file
MaxPool == 3
\* most MediaPlayer and ActivityBoard objects main() constructs
MaxObjects == 8
\* largest width and height of the image given to _show_image
MaxImage == 3
\* most characters of the text given to render_surface
MaxText == 2
\* largest TextRenderer.line_spacing
MaxSpacing == 2
\* most days of a month of the calendar of the media player
MaxDay == 2
\* most photos of the photo folder
MaxPhotos == 2
\* most events waiting in the event queue of the media player
MaxPending == 1
\* the sleeps of half a second a wait loop of MediaPlayer.run makes before
\* its time is over
WaitSleeps == 1

\* The grids (doors_horiz, doors_vert) the game is played on.
Grids == {<<2, 2>>, <<3, 1>>, <<1, 2>>}

\* The grids (doors_horiz, doors_vert) boards are constructed with.
NewGrids == {<<1, 1>>, <<2, 1>>, <<1, 2>>}

\* The grids of the boards that are constructed and then played on.
BoardGrids == {<<1, 1>>, <<2, 1>>}

----------------------------------------------------------------------------
(* Program constants *)

\* range(2, 102, 2) of _animate_open
OpenFirst == 2
OpenStop == 102
OpenStep == 2
\* range(5, 105, 5) of _animate_open_all
OpenAllFirst == 5
OpenAllStop == 105
OpenAllStep == 5

States == {"START", "SELECTING", "IN_PROGRESS", "ALL_REVEALED", "GAME_OVER"}

Directions == {"UP", "DOWN", "LEFT", "RIGHT"}

Actions == Directions \cup {"OPEN", "RETURN", "REVEAL", "RESTART", "QUIT"}

\* _translate_action returns None
None == "None"

\* no door: selected_door before START binds it
NoDoor == -1

\* play_again and the return value before they are bound
Unset == "unset"

----------------------------------------------------------------------------
(* Raw input events *)

Ev(t, k, m, b, v) == [type |-> t, key |-> k, mod |-> m, button |-> b, value |-> v]

KeyDown(k, m) == Ev("KEYDOWN", k, m, "-", <<0, 0>>)
JoyButton(b) == Ev("JOYBUTTONDOWN", "-", {}, b, <<0, 0>>)
JoyHat(x, y) == Ev("JOYHATMOTION", "-", {}, "-", <<x, y>>)

\* The events the environment sends while a game runs: for every action one
\* event that is translated into it, and events that are translated into
\* none.
Events ==
    { JoyHat(0, 1), KeyDown("K_DOWN", {}), KeyDown("K_a", {}), JoyHat(1, 0),
      JoyButton("BTN_A"), KeyDown("K_ESCAPE", {}), JoyButton("BTN_Y"),
      KeyDown("K_HOME", {}), JoyButton("BTN_BACK"),
      Ev("KEYUP", "K_DOWN", {}, "-", <<0, 0>>),
      KeyDown("K_x", {}), KeyDown("K_z", {}), JoyButton("BTN_LB"),
      JoyHat(1, 1), JoyHat(-1, 1), JoyHat(0, 0), JoyButton("BTN_X") }

\* _translate_action without the test of lines 406-408 for a diagonal motion
TranslateActionDiagonal(event, x_held, back_held) ==
    IF event.type = "JOYBUTTONDOWN" THEN
        IF event.button = "BTN_A" THEN "OPEN"
        ELSE IF event.button = "BTN_B" THEN "RETURN"
        ELSE IF event.button = "BTN_Y" THEN (IF x_held THEN "REVEAL" ELSE None)
        ELSE IF event.button = "BTN_START" THEN "RESTART"
        ELSE IF event.button = "BTN_BACK" THEN (IF back_held THEN "QUIT" ELSE None)
        ELSE None
    ELSE IF event.type = "JOYHATMOTION" THEN
        IF event.value[1] > 0 THEN "RIGHT"
        ELSE IF event.value[1] < 0 THEN "LEFT"
        ELSE IF event.value[2] > 0 THEN "UP"
        ELSE IF event.value[2] < 0 THEN "DOWN"
        ELSE None
    ELSE IF event.type = "KEYDOWN" THEN
        IF event.key \in {"K_UP", "K_w"} THEN "UP"
        ELSE IF event.key \in {"K_DOWN", "K_s"} THEN "DOWN"
        ELSE IF event.key \in {"K_LEFT", "K_a"} THEN "LEFT"
        ELSE IF event.key \in {"K_RIGHT", "K_d"} THEN "RIGHT"
        ELSE IF event.key \in {"K_RETURN", "K_SPACE"} THEN "OPEN"
        ELSE IF event.key \in {"K_BACKSPACE", "K_ESCAPE"} THEN "RETURN"
        ELSE IF event.key = "K_z" /\ "LSHIFT" \in event.mod THEN "REVEAL"
        ELSE IF event.key = "K_HOME" THEN "RESTART"
        ELSE IF event.key = "K_q" /\ "LSHIFT" \in event.mod
                /\ event.mod \cap {"LCTRL", "RCTRL"} # {} THEN "QUIT"
        ELSE None
    ELSE None

\* _translate_action.  x_held is what get_button(BTN_X) reads; back_held is
\* TRUE when BTN_BACK stays down until more than 2 seconds have passed.
TranslateAction(event, x_held, back_held) ==
    IF event.type = "JOYBUTTONDOWN" THEN
        IF event.button = "BTN_A" THEN "OPEN"
        ELSE IF event.button = "BTN_B" THEN "RETURN"
        ELSE IF event.button = "BTN_Y" THEN (IF x_held THEN "REVEAL" ELSE None)
        ELSE IF event.button = "BTN_START" THEN "RESTART"
        ELSE IF event.button = "BTN_BACK" THEN (IF back_held THEN "QUIT" ELSE None)
        ELSE None
    ELSE IF event.type = "JOYHATMOTION" THEN
        IF event.value[1] # 0 /\ event.value[2] # 0 THEN None
        ELSE IF event.value[1] > 0 THEN "RIGHT"
        ELSE IF event.value[1] < 0 THEN "LEFT"
        ELSE IF event.value[2] > 0 THEN "UP"
        ELSE IF event.value[2] < 0 THEN "DOWN"
        ELSE None
    ELSE IF event.type = "KEYDOWN" THEN
        IF event.key \in {"K_UP", "K_w"} THEN "UP"
        ELSE IF event.key \in {"K_DOWN", "K_s"} THEN "DOWN"
        ELSE IF event.key \in {"K_LEFT", "K_a"} THEN "LEFT"
        ELSE IF event.key \in {"K_RIGHT", "K_d"} THEN "RIGHT"
        ELSE IF event.key \in {"K_RETURN", "K_SPACE"} THEN "OPEN"
        ELSE IF event.key \in {"K_BACKSPACE", "K_ESCAPE"} THEN "RETURN"
        ELSE IF event.key = "K_z" /\ "LSHIFT" \in event.mod THEN "REVEAL"
        ELSE IF event.key = "K_HOME" THEN "RESTART"
        ELSE IF event.key = "K_q" /\ "LSHIFT" \in event.mod
                /\ event.mod \cap {"LCTRL", "RCTRL"} # {} THEN "QUIT"
        ELSE None
    ELSE None

\* _translate_action reads the joystick (get_button, lines 387 and 398) only
\* when the event is the press of button b: what it can read
ButtonsRead(event, b) ==
    IF event.type = "JOYBUTTONDOWN" /\ event.button = b THEN BOOLEAN ELSE {FALSE}

\* the pygame.event.clear() inside _translate_action (BTN_BACK)
TranslateClears(event) ==
    event.type = "JOYBUTTONDOWN" /\ event.button = "BTN_BACK"

\* The inputs of _translate_action: an event of Events with what the
\* joystick reads while it is translated.
Inputs ==
    {i \in Events \X BOOLEAN \X BOOLEAN :
        /\ i[2] \in ButtonsRead(i[1], "BTN_Y")
        /\ i[3] \in ButtonsRead(i[1], "BTN_BACK")}

\* What a call of _translate_action can do: the action it returns and
\* whether it cleared the event queue.
Translations ==
    {[action |-> TranslateAction(i[1], i[2], i[3]),
      clears |-> TranslateClears(i[1])] : i \in Inputs}

----------------------------------------------------------------------------
(* Doors *)

\* Door.__init__
NewDoor(i, activity, hidden) ==
    [index |-> i, activity |-> activity, is_selected |-> FALSE,
     is_open |-> FALSE, is_revealed |-> FALSE, is_hidden |-> hidden,
     is_updated |-> TRUE, pct_open |-> 0]

\* num_doors counting the doors of one row only
NumDoorsOneRow(h, v) == h

\* ActivityBoard.num_doors
NumDoors(h, v) == h * v

\* an activity file of n distinct lines
Lines(n) == [k \in 1..n |-> k]

\* The activity files: up to MaxPool distinct lines, and the file in which
\* the same line comes twice.
Pools == {Lines(n) : n \in 0..MaxPool} \cup {<<1, 1>>}

\* list.remove: the list without the first occurrence of x
Remove(list, x) ==
    LET at == CHOOSE k \in 1..Len(list) :
                  list[k] = x /\ \A j \in 1..(k - 1) : list[j] # x
    IN  [k \in 1..(Len(list) - 1) |-> IF k < at THEN list[k] ELSE list[k + 1]]

\* list.append on a list of doors, which is indexed from 0
AppendDoor(ds, d) ==
    [k \in 0..Cardinality(DOMAIN ds) |-> IF k \in DOMAIN ds THEN ds[k] ELSE d]

\* _build_door_list, lines 292-304 without line 296: the activity chosen
\* stays in the list
BuildOneKeepsActivity(ds, list, activity, hidden) ==
    [doors |-> AppendDoor(ds, NewDoor(Cardinality(DOMAIN ds), activity, hidden)),
     activities |-> list]

\* _build_door_list, lines 263-304: one iteration of the loop, in which
\* random.choice returned activity
BuildOne(ds, list, activity, hidden) ==
    [doors |-> AppendDoor(ds, NewDoor(Cardinality(DOMAIN ds), activity, hidden)),
     activities |-> Remove(list, activity)]

\* ActivityBoard._build_door_list on a file of h * v distinct lines, when
\* random.choice returns the first line left every time.  The game never
\* reads the activity of a door, so this board stands for the boards of
\* every other drawing.
BuildDoorList(h, v, hidden) ==
    [i \in 0..(NumDoors(h, v) - 1) |-> NewDoor(i, i + 1, hidden)]

\* no exception
NoError == [type |-> None, message |-> ""]

\* __init__, lines 139-140
WidthError ==
    [type |-> "RuntimeError",
     message |-> "surface width must be an integer multiple of doors_horiz"]

\* __init__, lines 143-144
HeightError ==
    [type |-> "RuntimeError",
     message |-> "surface height must be an integer multiple of doors_vert"]

\* what random.choice raises on an empty list (line 293)
ChoiceError ==
    [type |-> "IndexError", message |-> "Cannot choose from an empty sequence"]

Dirty(ds) == {i \in DOMAIN ds : ds[i].is_updated}

\* get_door_surface testing is_open and not is_revealed (line 189) before
\* is_hidden (line 186)
VariantCrossFirst(d) ==
    IF d.is_open /\ ~d.is_revealed THEN "cross"
    ELSE IF d.is_hidden THEN "blank"
    ELSE IF d.is_revealed THEN "revealed"
    ELSE "door"

\* Door.get_door_surface: the variant it renders
Variant(d) ==
    IF d.is_hidden THEN "blank"
    ELSE IF d.is_open /\ ~d.is_revealed THEN "cross"
    ELSE IF d.is_revealed THEN "revealed"
    ELSE "door"

\* Door.get_door_surface: the colour of the activity text of a revealed door
TextColor(d) ==
    IF d.is_open THEN "activity_color" ELSE "unused_color"

\* Door.get_door_surface, lines 192-195 and 219-224: the colour the surface
\* is filled with before the interior is drawn over it
Border(d) ==
    IF d.is_selected THEN "selection_color" ELSE "bg_color"

\* Door.get_door_surface: what the surface it returns shows.  border is the
\* colour around the interior, text the colour of the activity text drawn
\* in full, window whether the part of the activity given by pct_open is
\* drawn over the door.
GetDoorSurface(d) ==
    [variant |-> Variant(d),
     border |-> IF Variant(d) \in {"cross", "door"} THEN Border(d) ELSE "bg_color",
     text |-> IF Variant(d) = "revealed" THEN TextColor(d) ELSE None,
     window |-> Variant(d) = "door" /\ d.pct_open > 0]

\* no surface was rendered
NoSurface ==
    [variant |-> None, border |-> None, text |-> None, window |-> FALSE]

\* _draw_door has not been called
NotDrawn ==
    /\ drawn_door = NewDoor(0, 0, FALSE)
    /\ door_surface = NoSurface

\* no run() has returned
NoRun == [by |-> None, value |-> FALSE]

\* main() has not been entered
NotStarted ==
    /\ main_pc = "off"
    /\ main_play_again = FALSE
    /\ player = 0
    /\ board = 0
    /\ objects = 0
    /\ boards = {}
    /\ ran = {}
    /\ last_run = NoRun

\* the process _show_video has not started
NoProc == [exited |-> FALSE, returncode |-> 0, killed |-> FALSE]

\* _show_video has not been called
NotPlaying ==
    /\ video_pc = "off"
    /\ proc = NoProc
    /\ video_quit = FALSE
    /\ video_sleeps = 0
    /\ killall = 0
    /\ video_result = Unset

\* no time: get_button(BTN_BACK) has not returned True
Never == -1

\* _translate_action has not been called on its own
NotTranslating ==
    /\ tr_pc = "off"
    /\ tr_event = JoyHat(0, 0)
    /\ held = {}
    /\ monotonic = 0
    /\ timestamp = 0
    /\ back_up = FALSE
    /\ read_at = Never
    /\ tr_result = Unset

\* _show_image raised nothing
NoImageError == [type |-> None, line |-> 0]

\* nothing was blitted
NoBlit == [width |-> 0, height |-> 0, x |-> 0, y |-> 0, done |-> FALSE]

\* _show_image has not been called on its own
NotShowing ==
    /\ image_pc = "off"
    /\ screen = [width |-> 1, height |-> 1]
    /\ img = [width |-> 1, height |-> 1, bitsize |-> 24]
    /\ blit = NoBlit
    /\ image_error = NoImageError

\* render_surface has not created its surface
NoTextSurface == [width |-> 0, height |-> 0, blits |-> <<>>, made |-> FALSE]

\* render_surface has not been called on its own
NotRendering ==
    /\ text_pc = "off"
    /\ text = <<>>
    /\ line_spacing = 0
    /\ text_lines = <<>>
    /\ text_surfaces = <<>>
    /\ total_height = 0
    /\ max_width = 0
    /\ text_surface = NoTextSurface
    /\ line_y = 0

\* nothing was put on the screen
NoDisplay == [kind |-> None, photo |-> 0, start_date |-> 0, end_date |-> 0]

\* MediaPlayer.run has not been called
NotRunning ==
    /\ run_pc = "off"
    /\ today = <<1, 1>>
    /\ announcement_data = <<>>
    /\ photo_dir = <<>>
    /\ video_dir = 0
    /\ current_date = 0
    /\ announcements = <<>>
    /\ photos = <<>>
    /\ videos = 0
    /\ photo = 0
    /\ pending = <<>>
    /\ sleeps_left = 0
    /\ display = NoDisplay
    /\ shown = {}
    /\ run_result = Unset

\* none of _show_image, render_surface and MediaPlayer.run has been called
\* on its own
OthersIdle == NotShowing /\ NotRendering /\ NotRunning

\* no function is being checked on its own
BesidesIdle == NotPlaying /\ NotTranslating /\ OthersIdle

----------------------------------------------------------------------------
(* Redraw passes *)

\* _draw_updated_doors without line 471: the flag of a drawn door is kept
DrawUpdatedDoorsKeepFlag(ds) == [doors |-> ds, drawn |-> Dirty(ds)]

\* _draw_updated_doors: the loop over self._doors from door k on; drawn is
\* the set of doors _draw_door was called on so far.
RECURSIVE DrawUpdatedFrom(_, _, _)
DrawUpdatedFrom(ds, drawn, k) ==
    IF k \notin DOMAIN ds THEN [doors |-> ds, drawn |-> drawn]
    ELSE IF ds[k].is_updated
         THEN DrawUpdatedFrom([ds EXCEPT ![k].is_updated = FALSE],
                              drawn \cup {k}, k + 1)
         ELSE DrawUpdatedFrom(ds, drawn, k + 1)

DrawUpdatedDoors(ds) == DrawUpdatedFrom(ds, {}, 0)

\* _draw_all_doors
RECURSIVE DrawAllFrom(_, _, _)
DrawAllFrom(ds, drawn, k) ==
    IF k \notin DOMAIN ds THEN [doors |-> ds, drawn |-> drawn]
    ELSE DrawAllFrom([ds EXCEPT ![k].is_updated = FALSE], drawn \cup {k}, k + 1)

DrawAllDoors(ds) == DrawAllFrom(ds, {}, 0)

\* What one redraw pass did: the doors dirty when it was entered, the doors
\* it drew, the doors still dirty when it returned, and the fields of
\* every door when it returned.
Pass(kind, before, r) ==
    [kind |-> kind, dirty |-> Dirty(before), drawn |-> r.drawn,
     left |-> Dirty(r.doors), doors |-> r.doors]

----------------------------------------------------------------------------
(* Animations *)

\* _animate_open: the loop from tick i on; fr is the sequence of pct_open
\* values _draw_door rendered so far.
RECURSIVE AnimateOpenFrom(_, _, _, _)
AnimateOpenFrom(ds, d, i, fr) ==
    IF i >= OpenStop THEN [doors |-> ds, frames |-> fr]
    ELSE LET ds1 == [ds EXCEPT ![d].pct_open = i]
         IN  AnimateOpenFrom(ds1, d, i + OpenStep, Append(fr, ds1[d].pct_open))

\* _animate_open with range(3, 102, 2) at line 546
AnimateOpenOdd(ds, d) == AnimateOpenFrom(ds, d, OpenFirst + 1, <<>>)

\* _animate_open
AnimateOpen(ds, d) == AnimateOpenFrom(ds, d, OpenFirst, <<>>)

\* lines 562-567 left out: the doors already open wait for lines 581-583
RevealOpenedLate(ds) == ds

\* _animate_open_all, lines 562-567: the doors already open are revealed
RevealOpened(ds) ==
    [k \in DOMAIN ds |->
        IF ds[k].is_open
        THEN [ds[k] EXCEPT !.is_revealed = TRUE, !.is_updated = TRUE]
        ELSE ds[k]]

\* _animate_open_all, lines 569-575: the sweep from tick i on
RECURSIVE OpenAllFrom(_, _, _)
OpenAllFrom(ds, i, ps) ==
    IF i >= OpenAllStop THEN [doors |-> ds, passes |-> ps]
    ELSE LET ds1 == [k \in DOMAIN ds |->
                        IF ~ds[k].is_open
                        THEN [ds[k] EXCEPT !.pct_open = i, !.is_updated = TRUE]
                        ELSE ds[k]]
             r == DrawUpdatedDoors(ds1)
         IN  OpenAllFrom(r.doors, i + OpenAllStep,
                         Append(ps, Pass("updated", ds1, r)))

\* lines 581-583 marking every door open as well as revealed
RevealAllOpens(ds) ==
    [k \in DOMAIN ds |->
        [ds[k] EXCEPT !.is_revealed = TRUE, !.is_open = TRUE, !.is_updated = TRUE]]

\* _animate_open_all, lines 581-583: every door is revealed
RevealAll(ds) ==
    [k \in DOMAIN ds |-> [ds[k] EXCEPT !.is_revealed = TRUE, !.is_updated = TRUE]]

\* _animate_open_all without the sweep of lines 569-575
AnimateOpenAllNoSweep(ds) ==
    LET ds1 == RevealOpened(ds)
        r1 == DrawUpdatedDoors(ds1)
        ds2 == RevealAll(r1.doors)
        r2 == DrawUpdatedDoors(ds2)
    IN  [doors |-> r2.doors,
         passes |-> <<Pass("updated", ds1, r1), Pass("updated", ds2, r2)>>]

\* _animate_open_all
AnimateOpenAll(ds) ==
    LET ds1 == RevealOpened(ds)
        r1 == DrawUpdatedDoors(ds1)
        sw == OpenAllFrom(r1.doors, OpenAllFirst, <<Pass("updated", ds1, r1)>>)
        ds2 == RevealAll(sw.doors)
        r2 == DrawUpdatedDoors(ds2)
    IN  [doors |-> r2.doors,
         passes |-> Append(sw.passes, Pass("updated", ds2, r2))]

----------------------------------------------------------------------------
(* Selection *)

\* _get_new_selection without the checks of lines 353-357 on the column
GetNewSelectionNoColumnCheck(h, v, door, dir) ==
    LET old_index_h == door.index % h
        old_index_v == door.index \div h
        new_index_h == IF dir = "LEFT" THEN old_index_h - 1
                       ELSE IF dir = "RIGHT" THEN old_index_h + 1
                       ELSE old_index_h
        moved_v == IF dir = "UP" THEN old_index_v - 1
                   ELSE IF dir = "DOWN" THEN old_index_v + 1
                   ELSE old_index_v
        v1 == IF moved_v < 0 THEN 0 ELSE moved_v
        new_index_v == IF v1 > v - 1 THEN old_index_v ELSE v1
    IN  new_index_v * h + new_index_h

\* _get_new_selection
GetNewSelection(h, v, door, dir) ==
    LET old_index == door.index
        old_index_h == old_index % h
        old_index_v == old_index \div h
        moved_h == IF dir = "LEFT" THEN old_index_h - 1
                   ELSE IF dir = "RIGHT" THEN old_index_h + 1
                   ELSE old_index_h
        moved_v == IF dir = "UP" THEN old_index_v - 1
                   ELSE IF dir = "DOWN" THEN old_index_v + 1
                   ELSE old_index_v
        h1 == IF moved_h < 0 THEN old_index_h ELSE moved_h
        new_index_h == IF h1 > h - 1 THEN old_index_h ELSE h1
        v1 == IF moved_v < 0 THEN 0 ELSE moved_v
        new_index_v == IF v1 > v - 1 THEN old_index_v ELSE v1
    IN  new_index_v * h + new_index_h

----------------------------------------------------------------------------
(* ActivityBoard.run *)

\* lines 612-616 without line 613: door 0 is drawn but not selected
SelectFirstNotSelected(ds) ==
    LET ds1 == [ds EXCEPT ![0].is_updated = TRUE]
        r == DrawUpdatedDoors(ds1)
    IN  [doors |-> r.doors, passes |-> <<Pass("updated", ds1, r)>>]

\* run(), lines 612-616: door 0 is selected and drawn
SelectFirst(ds) ==
    LET ds1 == [ds EXCEPT ![0].is_selected = TRUE, ![0].is_updated = TRUE]
        r == DrawUpdatedDoors(ds1)
    IN  [doors |-> r.doors, passes |-> <<Pass("updated", ds1, r)>>]

\* lines 626-635 without the test of line 626: an open door is opened again
HandleOpenNoCheck(ds, d, st) ==
    LET an == AnimateOpen(ds, d)
    IN  [doors |-> [an.doors EXCEPT ![d].is_open = TRUE],
         state |-> "IN_PROGRESS", sound |-> "open", frames |-> an.frames]

\* run(), lines 626-635: Action.OPEN on door d while the state is st
HandleOpen(ds, d, st) ==
    IF ~ds[d].is_open
    THEN LET an == AnimateOpen(ds, d)
         IN  [doors |-> [an.doors EXCEPT ![d].is_open = TRUE],
              state |-> "IN_PROGRESS", sound |-> "open", frames |-> an.frames]
    ELSE [doors |-> ds, state |-> st, sound |-> "oops", frames |-> <<>>]

\* lines 666-670 without line 666: the old door stays selected
MoveSelectionKeepsOld(ds, old, new) ==
    [ds EXCEPT ![old].is_updated = TRUE,
               ![new].is_selected = TRUE, ![new].is_updated = TRUE]

\* run(), lines 666-670: the selection moves from door old to door new
MoveSelection(ds, old, new) ==
    [ds EXCEPT ![old].is_selected = FALSE, ![old].is_updated = TRUE,
               ![new].is_selected = TRUE, ![new].is_updated = TRUE]

\* lines 662-676 with _draw_all_doors in place of _draw_updated_doors
HandleMoveDrawsAll(ds, h, v, d, a) ==
    LET new_index == GetNewSelection(h, v, ds[d], a)
    IN  IF new_index # ds[d].index
        THEN LET ds1 == MoveSelection(ds, d, new_index)
                 r == DrawAllDoors(ds1)
             IN  [doors |-> r.doors, selected_door |-> new_index,
                  sound |-> "move", passes |-> <<Pass("all", ds1, r)>>]
        ELSE [doors |-> ds, selected_door |-> d, sound |-> None,
              passes |-> <<>>]

\* run(), lines 662-676: a directional action a with door d selected
HandleMove(ds, h, v, d, a) ==
    LET new_index == GetNewSelection(h, v, ds[d], a)
    IN  IF new_index # ds[d].index
        THEN LET ds1 == MoveSelection(ds, d, new_index)
                 r == DrawUpdatedDoors(ds1)
             IN  [doors |-> r.doors, selected_door |-> new_index,
                  sound |-> "move", passes |-> <<Pass("updated", ds1, r)>>]
        ELSE [doors |-> ds, selected_door |-> d, sound |-> None,
              passes |-> <<>>]

Init ==
    /\ BesidesIdle
    /\ \E g \in Grids : doors_horiz = g[1] /\ doors_vert = g[2]
    /\ start_hidden \in BOOLEAN
    /\ doors = BuildDoorList(doors_horiz, doors_vert, start_hidden)
    /\ state = Unset
    /\ selected_door = NoDoor
    /\ play_again = Unset
    /\ pc = "new"
    /\ branch = Unset
    /\ batch = 0
    /\ queue \in 0..MaxQueue
    /\ intro_show_list = {}
    /\ result = Unset
    /\ sound = None
    /\ passes = <<>>
    /\ frames = <<>>
    /\ action = Unset
    /\ game_end = [action |-> None, in_state |-> Unset]
    /\ discarded = 0
    /\ sel_action = None
    /\ sel_result = NoDoor
    /\ NotDrawn
    /\ NotStarted
    /\ surface = [width |-> doors_horiz, height |-> doors_vert]
    /\ activity_file = Lines(NumDoors(doors_horiz, doors_vert))
    /\ activities = <<>>
    /\ door_list = <<>>
    /\ raised = NoError

\* line 601 setting a state that run() has no branch for
RunUnknownState ==
    /\ pc = "new"
    /\ state' = "PAUSED"
    /\ pc' = "loop"
    /\ UNCHANGED <<doors_horiz, doors_vert, start_hidden, doors, selected_door,
                   play_again, branch, batch, queue, intro_show_list, result,
                   sound, passes, frames, action, game_end, discarded,
                   aside>>

\* run(), line 601
Run ==
    /\ pc = "new"
    /\ state' = "START"
    /\ pc' = "loop"
    /\ UNCHANGED <<doors_horiz, doors_vert, start_hidden, doors, selected_door,
                   play_again, branch, batch, queue, intro_show_list, result,
                   sound, passes, frames, action, game_end, discarded,
                   aside>>

\* lines 604-620 with start_hidden false and without the
\* _draw_updated_doors of line 616
StartShownNoDraw ==
    /\ pc = "loop" /\ state = "START" /\ ~start_hidden
    /\ LET r == DrawAllDoors(doors)
       IN  /\ doors' = [r.doors EXCEPT ![0].is_selected = TRUE,
                                       ![0].is_updated = TRUE]
           /\ passes' = <<Pass("all", doors, r)>>
    /\ selected_door' = 0
    /\ state' = "SELECTING"
    /\ queue' = 0
    /\ discarded' = queue
    /\ sound' = "start"
    /\ frames' = <<>>
    /\ UNCHANGED <<doors_horiz, doors_vert, start_hidden, play_again, pc,
                   branch, batch, intro_show_list, result, action, game_end,
                   aside>>

\* run(), lines 604-620 with start_hidden false
StartShown ==
    /\ pc = "loop" /\ state = "START" /\ ~start_hidden
    /\ LET r == DrawAllDoors(doors)
           s == SelectFirst(r.doors)
       IN  /\ doors' = s.doors
           /\ passes' = <<Pass("all", doors, r)>> \o s.passes
    /\ selected_door' = 0
    /\ state' = "SELECTING"
    /\ queue' = 0
    /\ discarded' = queue
    /\ sound' = "start"
    /\ frames' = <<>>
    /\ UNCHANGED <<doors_horiz, doors_vert, start_hidden, play_again, pc,
                   branch, batch, intro_show_list, result, action, game_end,
                   aside>>

\* run(), lines 604-608 with start_hidden true, and _animate_intro up to its loop
StartHidden ==
    /\ pc = "loop" /\ state = "START" /\ start_hidden
    /\ LET r == DrawAllDoors(doors)
       IN  /\ doors' = r.doors
           /\ passes' = <<Pass("all", doors, r)>>
    /\ intro_show_list' = DOMAIN doors
    /\ pc' = "intro"
    /\ sound' = "start"
    /\ frames' = <<>>
    /\ UNCHANGED <<doors_horiz, doors_vert, start_hidden, state, selected_door,
                   play_again, branch, batch, queue, result, action, game_end,
                   discarded, aside>>

\* lines 524-533 without line 531: the index stays in intro_show_list
IntroStepNoRemove ==
    /\ pc = "intro" /\ intro_show_list # {}
    /\ \E intro_show_index \in intro_show_list :
         LET ds1 == [doors EXCEPT ![intro_show_index].is_hidden = FALSE,
                                  ![intro_show_index].is_updated = TRUE]
             r == DrawUpdatedDoors(ds1)
         IN  /\ doors' = r.doors
             /\ passes' = <<Pass("updated", ds1, r)>>
             /\ intro_show_list' = intro_show_list
    /\ sound' = None
    /\ frames' = <<>>
    /\ UNCHANGED <<doors_horiz, doors_vert, start_hidden, state, selected_door,
                   play_again, pc, branch, batch, queue, result, action,
                   game_end, discarded, aside>>

\* _animate_intro, one iteration of its loop
IntroStep ==
    /\ pc = "intro" /\ intro_show_list # {}
    /\ \E intro_show_index \in intro_show_list :
         LET ds1 == [doors EXCEPT ![intro_show_index].is_hidden = FALSE,
                                  ![intro_show_index].is_updated = TRUE]
             r == DrawUpdatedDoors(ds1)
         IN  /\ doors' = r.doors
             /\ passes' = <<Pass("updated", ds1, r)>>
             /\ intro_show_list' = intro_show_list \ {intro_show_index}
    /\ sound' = None
    /\ frames' = <<>>
    /\ UNCHANGED <<doors_horiz, doors_vert, start_hidden, state, selected_door,
                   play_again, pc, branch, batch, queue, result, action,
                   game_end, discarded, aside>>

\* _animate_intro returns; run(), lines 612-620
IntroDone ==
    /\ pc = "intro" /\ intro_show_list = {}
    /\ LET s == SelectFirst(doors)
       IN  /\ doors' = s.doors
           /\ passes' = s.passes
    /\ selected_door' = 0
    /\ state' = "SELECTING"
    /\ queue' = 0
    /\ discarded' = queue
    /\ pc' = "loop"
    /\ sound' = None
    /\ frames' = <<>>
    /\ UNCHANGED <<doors_horiz, doors_vert, start_hidden, play_again, branch,
                   batch, intro_show_list, result, action, game_end,
                   aside>>

\* pygame.event.get() of lines 622, 680 and 690; arrived is the number of
\* events that came in since the queue was last read or cleared.
Poll ==
    /\ pc = "loop" /\ state \in {"SELECTING", "IN_PROGRESS", "ALL_REVEALED"}
    /\ \E arrived \in 0..(MaxQueue - queue) :
         /\ batch' = queue + arrived
         /\ pc' = IF queue + arrived = 0 THEN "loop" ELSE "foreach"
    /\ queue' = 0
    /\ branch' = state
    /\ sound' = None
    /\ passes' = <<>>
    /\ frames' = <<>>
    /\ action' = Unset
    /\ discarded' = 0
    /\ UNCHANGED <<doors_horiz, doors_vert, start_hidden, doors, state,
                   selected_door, play_again, intro_show_list, result,
                   game_end, aside>>

\* the for loop of branch b has an event left to take
Taking(b) == pc = "foreach" /\ batch > 0 /\ branch = b

\* The for loop of branch b takes the next event of the list, which
\* _translate_action turns into a.  clears tells whether the handler of a
\* calls pygame.event.clear(), animates whether it runs an animation: the
\* events that arrive while the animation runs are in the queue when the
\* handler comes to its clear().
Handle(b, a, clears, animates) ==
    /\ Taking(b)
    /\ \E t \in Translations,
          arrived \in (IF animates THEN 0..(MaxQueue - queue) ELSE {0}) :
         /\ t.action = a
         /\ IF clears
            THEN queue' = 0 /\ discarded' = queue + arrived
            ELSE /\ queue' = IF t.clears THEN 0 ELSE queue + arrived
                 /\ discarded' = IF t.clears THEN queue ELSE 0
    /\ action' = a
    /\ batch' = batch - 1
    /\ pc' = IF batch = 1 THEN "loop" ELSE "foreach"
    /\ UNCHANGED <<doors_horiz, doors_vert, start_hidden, branch,
                   intro_show_list, result, aside>>

\* the action that moves the state to GAME_OVER is recorded
EndedBy(a) ==
    IF state # "GAME_OVER" THEN [action |-> a, in_state |-> state] ELSE game_end

\* lines 625-637 opening door 0 whichever door is selected
SelectingOpenFirstDoor ==
    /\ Taking("SELECTING")
    /\ LET r == HandleOpen(doors, 0, state)
       IN  /\ doors' = r.doors
           /\ state' = r.state
           /\ sound' = r.sound
           /\ frames' = r.frames
    /\ passes' = <<>>
    /\ Handle("SELECTING", "OPEN", TRUE, ~doors[0].is_open)
    /\ UNCHANGED <<selected_door, play_again, game_end>>

\* run(), lines 625-637
SelectingOpen ==
    /\ Taking("SELECTING")
    /\ LET r == HandleOpen(doors, selected_door, state)
       IN  /\ doors' = r.doors
           /\ state' = r.state
           /\ sound' = r.sound
           /\ frames' = r.frames
    /\ passes' = <<>>
    /\ Handle("SELECTING", "OPEN", TRUE, ~doors[selected_door].is_open)
    /\ UNCHANGED <<selected_door, play_again, game_end>>

\* run(), lines 638-642
SelectingRestart ==
    /\ Taking("SELECTING")
    /\ play_again' = TRUE
    /\ state' = "GAME_OVER"
    /\ game_end' = EndedBy("RESTART")
    /\ sound' = None /\ passes' = <<>> /\ frames' = <<>>
    /\ Handle("SELECTING", "RESTART", TRUE, FALSE)
    /\ UNCHANGED <<doors, selected_door>>

\* run(), lines 643-647
SelectingQuit ==
    /\ Taking("SELECTING")
    /\ play_again' = FALSE
    /\ state' = "GAME_OVER"
    /\ game_end' = EndedBy("QUIT")
    /\ sound' = None /\ passes' = <<>> /\ frames' = <<>>
    /\ Handle("SELECTING", "QUIT", TRUE, FALSE)
    /\ UNCHANGED <<doors, selected_door>>

\* lines 648-653 without the pygame.event.clear() of line 655
SelectingRevealNoClear ==
    /\ Taking("SELECTING")
    /\ LET r == AnimateOpenAll(doors)
       IN  /\ doors' = r.doors
           /\ passes' = r.passes
    /\ state' = "ALL_REVEALED"
    /\ sound' = "reveal_all"
    /\ frames' = <<>>
    /\ Handle("SELECTING", "REVEAL", FALSE, TRUE)
    /\ UNCHANGED <<selected_door, play_again, game_end>>

\* run(), lines 648-655
SelectingReveal ==
    /\ Taking("SELECTING")
    /\ LET r == AnimateOpenAll(doors)
       IN  /\ doors' = r.doors
           /\ passes' = r.passes
    /\ state' = "ALL_REVEALED"
    /\ sound' = "reveal_all"
    /\ frames' = <<>>
    /\ Handle("SELECTING", "REVEAL", TRUE, TRUE)
    /\ UNCHANGED <<selected_door, play_again, game_end>>

\* run(), lines 656-678
SelectingMove ==
    /\ Taking("SELECTING")
    /\ \E a \in Directions :
         /\ LET r == HandleMove(doors, doors_horiz, doors_vert, selected_door, a)
            IN  /\ doors' = r.doors
                /\ selected_door' = r.selected_door
                /\ sound' = r.sound
                /\ passes' = r.passes
         /\ Handle("SELECTING", a, TRUE, FALSE)
    /\ frames' = <<>>
    /\ UNCHANGED <<state, play_again, game_end>>

\* run(), lines 622-678: an action no elif of the SELECTING branch names
SelectingOther ==
    /\ \E a \in {"RETURN", None} : Handle("SELECTING", a, FALSE, FALSE)
    /\ sound' = None /\ passes' = <<>> /\ frames' = <<>>
    /\ UNCHANGED <<doors, state, selected_door, play_again, game_end>>

\* lines 683-688 closing every door before line 684 draws the doors
InProgressReturnCloses ==
    /\ Taking("IN_PROGRESS")
    /\ LET ds1 == [k \in DOMAIN doors |->
                     [doors[k] EXCEPT !.is_open = FALSE, !.pct_open = 0]]
           r == DrawAllDoors(ds1)
       IN  /\ doors' = r.doors
           /\ passes' = <<Pass("all", ds1, r)>>
    /\ state' = "SELECTING"
    /\ sound' = None /\ frames' = <<>>
    /\ Handle("IN_PROGRESS", "RETURN", TRUE, FALSE)
    /\ UNCHANGED <<selected_door, play_again, game_end>>

\* run(), lines 683-688
InProgressReturn ==
    /\ Taking("IN_PROGRESS")
    /\ LET r == DrawAllDoors(doors)
       IN  /\ doors' = r.doors
           /\ passes' = <<Pass("all", doors, r)>>
    /\ state' = "SELECTING"
    /\ sound' = None /\ frames' = <<>>
    /\ Handle("IN_PROGRESS", "RETURN", TRUE, FALSE)
    /\ UNCHANGED <<selected_door, play_again, game_end>>

\* run(), lines 680-688: any action but RETURN
InProgressOther ==
    /\ \E a \in (Actions \cup {None}) \ {"RETURN"} :
         Handle("IN_PROGRESS", a, FALSE, FALSE)
    /\ sound' = None /\ passes' = <<>> /\ frames' = <<>>
    /\ UNCHANGED <<doors, state, selected_door, play_again, game_end>>

\* run(), lines 693-697
AllRevealedRestart ==
    /\ Taking("ALL_REVEALED")
    /\ play_again' = TRUE
    /\ state' = "GAME_OVER"
    /\ game_end' = EndedBy("RESTART")
    /\ sound' = None /\ passes' = <<>> /\ frames' = <<>>
    /\ Handle("ALL_REVEALED", "RESTART", TRUE, FALSE)
    /\ UNCHANGED <<doors, selected_door>>

\* run(), lines 698-702
AllRevealedQuit ==
    /\ Taking("ALL_REVEALED")
    /\ play_again' = FALSE
    /\ state' = "GAME_OVER"
    /\ game_end' = EndedBy("QUIT")
    /\ sound' = None /\ passes' = <<>> /\ frames' = <<>>
    /\ Handle("ALL_REVEALED", "QUIT", TRUE, FALSE)
    /\ UNCHANGED <<doors, selected_door>>

\* run(), lines 690-702: any action but RESTART and QUIT
AllRevealedOther ==
    /\ \E a \in (Actions \cup {None}) \ {"RESTART", "QUIT"} :
         Handle("ALL_REVEALED", a, FALSE, FALSE)
    /\ sound' = None /\ passes' = <<>> /\ frames' = <<>>
    /\ UNCHANGED <<doors, state, selected_door, play_again, game_end>>

\* run(), lines 603 and 708: the loop ends and play_again is returned
Return ==
    /\ pc = "loop" /\ state = "GAME_OVER"
    /\ result' = play_again
    /\ pc' = "returned"
    /\ UNCHANGED <<doors_horiz, doors_vert, start_hidden, doors, state,
                   selected_door, play_again, branch, batch, queue,
                   intro_show_list, sound, passes, frames, action, game_end,
                   discarded, aside>>

Next ==
    \/ Run
    \/ StartShown
    \/ StartHidden
    \/ IntroStep
    \/ IntroDone
    \/ Poll
    \/ SelectingOpen
    \/ SelectingRestart
    \/ SelectingQuit
    \/ SelectingReveal
    \/ SelectingMove
    \/ SelectingOther
    \/ InProgressReturn
    \/ InProgressOther
    \/ AllRevealedRestart
    \/ AllRevealedQuit
    \/ AllRevealedOther
    \/ Return

Spec == Init /\ [][Next]_vars

----------------------------------------------------------------------------
(* _get_new_selection on its own: every grid up to MaxHoriz x MaxVert,     *)
(* every selected door, every direction.                                   *)

InitSel ==
    /\ BesidesIdle
    /\ doors_horiz \in 1..MaxHoriz
    /\ doors_vert \in 1..MaxVert
    /\ start_hidden = FALSE
    /\ doors = BuildDoorList(doors_horiz, doors_vert, FALSE)
    /\ state = "SELECTING"
    /\ selected_door \in 0..(NumDoors(doors_horiz, doors_vert) - 1)
    /\ play_again = Unset
    /\ pc = "loop"
    /\ branch = Unset
    /\ batch = 0
    /\ queue = 0
    /\ intro_show_list = {}
    /\ result = Unset
    /\ sound = None
    /\ passes = <<>>
    /\ frames = <<>>
    /\ action = Unset
    /\ game_end = [action |-> None, in_state |-> Unset]
    /\ discarded = 0
    /\ sel_action = None
    /\ sel_result = NoDoor
    /\ NotDrawn
    /\ NotStarted
    /\ surface = [width |-> doors_horiz, height |-> doors_vert]
    /\ activity_file = Lines(NumDoors(doors_horiz, doors_vert))
    /\ activities = <<>>
    /\ door_list = <<>>
    /\ raised = NoError

\* run(), lines 662-663: _get_new_selection is called with a direction
SelCall ==
    /\ \E a \in Directions :
         /\ sel_action' = a
         /\ sel_result' = GetNewSelection(doors_horiz, doors_vert,
                                          doors[selected_door], a)
    /\ UNCHANGED <<doors_horiz, doors_vert, start_hidden, doors, state,
                   selected_door, play_again, pc, branch, batch, queue,
                   intro_show_list, result, sound, passes, frames, action,
                   game_end, discarded, initVars,
                   renderVars, mainVars, besides>>

\* run(), line 672: the door it returned becomes the selected door
SelFollow ==
    /\ sel_action \in Directions
    /\ sel_result \in DOMAIN doors
    /\ selected_door' = sel_result
    /\ sel_action' = None
    /\ sel_result' = NoDoor
    /\ UNCHANGED <<doors_horiz, doors_vert, start_hidden, doors, state,
                   play_again, pc, branch, batch, queue, intro_show_list,
                   result, sound, passes, frames, action, game_end, discarded, initVars,
                   renderVars, mainVars, besides>>

NextSel == SelCall \/ SelFollow

SpecSel == InitSel /\ [][NextSel]_vars

----------------------------------------------------------------------------
(* ActivityBoard.__init__: every grid of NewGrids, every surface up to      *)
(* MaxSurface x MaxSurface, every activity file of Pools.                  *)

\* run() has not been called
NotRun ==
    /\ state = Unset
    /\ selected_door = NoDoor
    /\ play_again = Unset
    /\ branch = Unset
    /\ batch = 0
    /\ intro_show_list = {}
    /\ result = Unset
    /\ sound = None
    /\ passes = <<>>
    /\ frames = <<>>
    /\ action = Unset
    /\ game_end = [action |-> None, in_state |-> Unset]
    /\ discarded = 0

\* __init__ is entered
NotBuilt ==
    /\ activities = <<>>
    /\ door_list = <<>>
    /\ raised = NoError
    /\ doors = <<>>
    /\ pc = "init"

InitNew ==
    /\ BesidesIdle
    /\ \E g \in NewGrids : doors_horiz = g[1] /\ doors_vert = g[2]
    /\ start_hidden \in BOOLEAN
    /\ surface \in [width : 1..MaxSurface, height : 1..MaxSurface]
    /\ activity_file \in Pools
    /\ NotBuilt
    /\ NotRun
    /\ queue = 0
    /\ sel_action = None
    /\ sel_result = NoDoor
    /\ NotDrawn
    /\ NotStarted

gameVars == <<state, selected_door, play_again, branch, batch, queue,
              intro_show_list, result, sound, passes, frames, action,
              game_end, discarded>>

\* __init__, lines 138-140
RaiseWidth ==
    /\ pc = "init"
    /\ surface.width % doors_horiz # 0
    /\ raised' = WidthError
    /\ pc' = "raised"
    /\ UNCHANGED <<doors_horiz, doors_vert, start_hidden, doors, surface,
                   activity_file, activities, door_list, gameVars, selVars, renderVars,
                   mainVars, besides>>

\* __init__, lines 142-144
RaiseHeight ==
    /\ pc = "init"
    /\ surface.width % doors_horiz = 0
    /\ surface.height % doors_vert # 0
    /\ raised' = HeightError
    /\ pc' = "raised"
    /\ UNCHANGED <<doors_horiz, doors_vert, start_hidden, doors, surface,
                   activity_file, activities, door_list, gameVars, selVars, renderVars,
                   mainVars, besides>>

\* lines 146-176 reached without the check of lines 142-144
ReadActivitiesAnyHeight ==
    /\ pc = "init"
    /\ surface.width % doors_horiz = 0
    /\ activities' = activity_file
    /\ pc' = "build"
    /\ UNCHANGED <<doors_horiz, doors_vert, start_hidden, doors, surface,
                   activity_file, door_list, raised, gameVars, selVars, renderVars,
                   mainVars, besides>>

\* __init__, lines 146-176: both checks passed, the activity file is read
ReadActivities ==
    /\ pc = "init"
    /\ surface.width % doors_horiz = 0
    /\ surface.height % doors_vert = 0
    /\ activities' = activity_file
    /\ pc' = "build"
    /\ UNCHANGED <<doors_horiz, doors_vert, start_hidden, doors, surface,
                   activity_file, door_list, raised, gameVars, selVars, renderVars,
                   mainVars, besides>>

\* _build_door_list, one iteration of its loop
BuildDoor ==
    /\ pc = "build"
    /\ Cardinality(DOMAIN door_list) < NumDoors(doors_horiz, doors_vert)
    /\ activities # <<>>
    /\ \E k \in 1..Len(activities) :
         LET r == BuildOne(door_list, activities, activities[k], start_hidden)
         IN  /\ door_list' = r.doors
             /\ activities' = r.activities
    /\ UNCHANGED <<doors_horiz, doors_vert, start_hidden, doors, pc, surface,
                   activity_file, raised, gameVars, selVars, renderVars,
                   mainVars, besides>>

\* _build_door_list, line 293 on an empty list: the exception leaves
\* _build_door_list and __init__, and the doors built so far are dropped
BuildRaise ==
    /\ pc = "build"
    /\ Cardinality(DOMAIN door_list) < NumDoors(doors_horiz, doors_vert)
    /\ activities = <<>>
    /\ raised' = ChoiceError
    /\ door_list' = <<>>
    /\ pc' = "raised"
    /\ UNCHANGED <<doors_horiz, doors_vert, start_hidden, doors, surface,
                   activity_file, activities, gameVars, selVars, renderVars,
                   mainVars, besides>>

\* _build_door_list returns; __init__, lines 177-202
BuildDone ==
    /\ pc = "build"
    /\ Cardinality(DOMAIN door_list) = NumDoors(doors_horiz, doors_vert)
    /\ doors' = door_list
    /\ door_list' = <<>>
    /\ pc' = "new"
    /\ UNCHANGED <<doors_horiz, doors_vert, start_hidden, surface,
                   activity_file, activities, raised, gameVars, selVars, renderVars,
                   mainVars, besides>>

NextNew ==
    \/ RaiseWidth
    \/ RaiseHeight
    \/ ReadActivities
    \/ BuildDoor
    \/ BuildRaise
    \/ BuildDone

SpecNew == InitNew /\ [][NextNew]_vars

----------------------------------------------------------------------------
(* __init__ followed by run().  The surface has the size of the grid; a    *)
(* board that starts shown is built from every activity file of Pools, a   *)
(* board that starts hidden from the file of num_doors distinct lines.     *)

InitBoard ==
    /\ BesidesIdle
    /\ \E g \in BoardGrids : doors_horiz = g[1] /\ doors_vert = g[2]
    /\ surface = [width |-> doors_horiz, height |-> doors_vert]
    /\ \/ start_hidden = FALSE /\ activity_file \in Pools
       \/ start_hidden = TRUE
          /\ activity_file = Lines(NumDoors(doors_horiz, doors_vert))
    /\ NotBuilt
    /\ NotRun
    /\ queue = 0
    /\ sel_action = None
    /\ sel_result = NoDoor
    /\ NotDrawn
    /\ NotStarted

NextBoard ==
    \/ ReadActivities
    \/ BuildDoor
    \/ BuildRaise
    \/ BuildDone
    \/ Next

SpecBoard == InitBoard /\ [][NextBoard]_vars

----------------------------------------------------------------------------
(* Door.get_door_surface on its own: every combination of the flags of a   *)
(* door, with every value of pct_open the animations write.                *)

\* no ActivityBoard is constructed
NoBoard ==
    /\ doors_horiz = 1
    /\ doors_vert = 1
    /\ start_hidden = FALSE
    /\ surface = [width |-> 1, height |-> 1]
    /\ activity_file = <<>>
    /\ NotBuilt
    /\ NotRun
    /\ queue = 0
    /\ sel_action = None
    /\ sel_result = NoDoor

boardVars == <<doors_horiz, doors_vert, start_hidden, doors, pc, gameVars,
               selVars, initVars>>

\* 0 (Door.__init__) and the values of range(2, 102, 2) and range(5, 105, 5)
PctOpens ==
    {0} \cup {i \in OpenFirst..(OpenStop - 1) : (i - OpenFirst) % OpenStep = 0}
        \cup {i \in OpenAllFirst..(OpenAllStop - 1) :
                  (i - OpenAllFirst) % OpenAllStep = 0}

InitDoor ==
    /\ BesidesIdle
    /\ drawn_door \in [index : {0}, activity : {1}, is_selected : BOOLEAN,
                        is_open : BOOLEAN, is_revealed : BOOLEAN,
                        is_hidden : BOOLEAN, is_updated : BOOLEAN,
                        pct_open : PctOpens]
    /\ door_surface = NoSurface
    /\ NoBoard
    /\ NotStarted

\* _draw_door, line 453
DrawDoor ==
    /\ door_surface = NoSurface
    /\ door_surface' = GetDoorSurface(drawn_door)
    /\ UNCHANGED <<drawn_door, boardVars, mainVars, besides>>

NextDoor == DrawDoor

SpecDoor == InitDoor /\ [][NextDoor]_vars

----------------------------------------------------------------------------
(* main(): the loop that alternates the media player and the activity      *)
(* board.  What run() returns is an input; at most MaxObjects objects are  *)
(* constructed.                                                            *)

InitMain ==
    /\ BesidesIdle
    /\ main_pc = "player_loop"
    /\ main_play_again = TRUE
    /\ player = 0
    /\ board = 0
    /\ objects = 0
    /\ boards = {}
    /\ ran = {}
    /\ last_run = NoRun
    /\ NoBoard
    /\ NotDrawn

\* main(), lines 74-78: a MediaPlayer is constructed
NewPlayer ==
    /\ main_pc = "player_loop" /\ main_play_again
    /\ objects < MaxObjects
    /\ objects' = objects + 1
    /\ player' = objects + 1
    /\ main_pc' = "player_run"
    /\ UNCHANGED <<main_play_again, board, boards, ran, last_run, boardVars,
                   renderVars, besides>>

\* main(), line 80: player.run() returns
RunPlayer ==
    /\ main_pc = "player_run"
    /\ \E value \in BOOLEAN :
         /\ main_play_again' = value
         /\ last_run' = [by |-> "player", value |-> value]
    /\ ran' = ran \cup {player}
    /\ main_pc' = "player_loop"
    /\ UNCHANGED <<player, board, objects, boards, boardVars, renderVars, besides>>

\* main(), lines 74 and 82: the loop of the media player is left
LeavePlayer ==
    /\ main_pc = "player_loop" /\ ~main_play_again
    /\ main_play_again' = TRUE
    /\ main_pc' = "board_loop"
    /\ UNCHANGED <<player, board, objects, boards, ran, last_run, boardVars,
                   renderVars, besides>>

\* lines 84-89 constructing an ActivityBoard only when there is none yet
NewBoardOnce ==
    /\ main_pc = "board_loop" /\ main_play_again
    /\ objects < MaxObjects
    /\ objects' = IF board = 0 THEN objects + 1 ELSE objects
    /\ board' = IF board = 0 THEN objects + 1 ELSE board
    /\ boards' = boards \cup {board'}
    /\ main_pc' = "board_run"
    /\ UNCHANGED <<main_play_again, player, ran, last_run, boardVars,
                   renderVars, besides>>

\* main(), lines 84-89: an ActivityBoard is constructed
NewBoard ==
    /\ main_pc = "board_loop" /\ main_play_again
    /\ objects < MaxObjects
    /\ objects' = objects + 1
    /\ board' = objects + 1
    /\ boards' = boards \cup {objects + 1}
    /\ main_pc' = "board_run"
    /\ UNCHANGED <<main_play_again, player, ran, last_run, boardVars,
                   renderVars, besides>>

\* main(), line 91: board.run() returns
RunBoard ==
    /\ main_pc = "board_run"
    /\ \E value \in BOOLEAN :
         /\ main_play_again' = value
         /\ last_run' = [by |-> "board", value |-> value]
    /\ ran' = ran \cup {board}
    /\ main_pc' = "board_loop"
    /\ UNCHANGED <<player, board, objects, boards, boardVars, renderVars, besides>>

\* main(), lines 84 and 93: the loop of the activity board is left
LeaveBoard ==
    /\ main_pc = "board_loop" /\ ~main_play_again
    /\ main_play_again' = TRUE
    /\ main_pc' = "player_loop"
    /\ UNCHANGED <<player, board, objects, boards, ran, last_run, boardVars,
                   renderVars, besides>>

NextMain ==
    \/ NewPlayer
    \/ RunPlayer
    \/ LeavePlayer
    \/ NewBoard
    \/ RunBoard
    \/ LeaveBoard

SpecMain == InitMain /\ [][NextMain]_vars

----------------------------------------------------------------------------
(* MediaPlayer._show_video (src/media_player.py): the loop that waits for  *)
(* the omxplayer process.  When the process exits, and with which code, is  *)
(* the environment's choice; the events _check_for_quit fetches are inputs  *)
(* of its step; at most MaxSleeps sleeps are made.                          *)

\* most time.sleep(0.5) calls of one _show_video
MaxSleeps == 6

\* the return codes the player process exits with on its own
ExitCodes == {0, 1}

\* the return code of a process ended by proc.kill() (SIGKILL)
Killed == -9

\* the events the environment sends while the media player runs
PlayerEvents ==
    { KeyDown("K_ESCAPE", {}), JoyButton("BTN_START"), KeyDown("K_a", {}),
      JoyButton("BTN_A"), Ev("KEYUP", "K_ESCAPE", {}, "-", <<0, 0>>) }

\* what pygame.event.get() can return to _check_for_quit
EventLists == UNION {[1..n -> PlayerEvents] : n \in 0..MaxQueue}

\* MediaPlayer._check_for_quit on the list pygame.event.get() returned
CheckForQuit(events) ==
    \E k \in 1..Len(events) :
        \/ events[k].type = "KEYDOWN" /\ events[k].key = "K_ESCAPE"
        \/ events[k].type = "JOYBUTTONDOWN" /\ events[k].button = "BTN_START"

\* Popen.poll(): none tells that it returns None (the process runs), code
\* is the return code otherwise
PollOf(p) == [none |-> ~p.exited, code |-> IF p.exited THEN p.returncode ELSE 0]

\* Python's not on what poll() returned: None and 0 are false
NotOf(v) == v.none \/ v.code = 0

InitVideo ==
    /\ video_pc = "call"
    /\ proc = NoProc
    /\ video_quit = FALSE
    /\ video_sleeps = 0
    /\ killall = 0
    /\ video_result = Unset
    /\ NoBoard
    /\ NotDrawn
    /\ NotStarted
    /\ NotTranslating
    /\ OthersIdle

\* _show_video, lines 169-175: the player process is started
Popen ==
    /\ video_pc = "call"
    /\ proc' = [exited |-> FALSE, returncode |-> 0, killed |-> FALSE]
    /\ video_pc' = "while"
    /\ UNCHANGED <<video_quit, video_sleeps, killall, video_result,
                   boardVars, renderVars, mainVars, pressVars,
                   others>>

\* the player process exits on its own
ProcExit ==
    /\ video_pc \in {"while", "check", "sleep", "quit"}
    /\ ~proc.exited
    /\ \E code \in ExitCodes :
         proc' = [exited |-> TRUE, returncode |-> code, killed |-> FALSE]
    /\ UNCHANGED <<video_pc, video_quit, video_sleeps, killall, video_result,
                   boardVars, renderVars, mainVars, pressVars,
                   others>>

\* _show_video, line 178: while not proc.poll()
WhileNotPoll ==
    /\ video_pc = "while"
    /\ video_pc' = IF NotOf(PollOf(proc)) THEN "check" ELSE "done"
    /\ UNCHANGED <<proc, video_quit, video_sleeps, killall, video_result,
                   boardVars, renderVars, mainVars, pressVars,
                   others>>

\* _show_video, line 180: _check_for_quit reads the events
VideoCheck ==
    /\ video_pc = "check"
    /\ \E events \in EventLists :
         /\ video_quit' = CheckForQuit(events)
         /\ video_pc' = IF CheckForQuit(events) THEN "quit" ELSE "sleep"
    /\ UNCHANGED <<proc, video_sleeps, killall, video_result,
                   boardVars, renderVars, mainVars, pressVars,
                   others>>

\* _show_video, lines 182-189: the player is killed and False is returned
VideoQuit ==
    /\ video_pc = "quit"
    /\ proc' = IF proc.exited THEN proc
               ELSE [exited |-> TRUE, returncode |-> Killed, killed |-> TRUE]
    /\ killall' = killall + 1
    /\ video_result' = FALSE
    /\ video_pc' = "returned"
    /\ UNCHANGED <<video_quit, video_sleeps, boardVars, renderVars, mainVars, pressVars,
                   others>>

\* _show_video, line 192
VideoSleep ==
    /\ video_pc = "sleep"
    /\ video_sleeps < MaxSleeps
    /\ video_sleeps' = video_sleeps + 1
    /\ video_pc' = "while"
    /\ UNCHANGED <<proc, video_quit, killall, video_result,
                   boardVars, renderVars, mainVars, pressVars,
                   others>>

\* _show_video, lines 196-199: the loop was left, True is returned
VideoDone ==
    /\ video_pc = "done"
    /\ killall' = killall + 1
    /\ video_result' = TRUE
    /\ video_pc' = "returned"
    /\ UNCHANGED <<proc, video_quit, video_sleeps, boardVars, renderVars,
                   mainVars, pressVars,
                   others>>

NextVideo ==
    \/ Popen
    \/ ProcExit
    \/ WhileNotPoll
    \/ VideoCheck
    \/ VideoQuit
    \/ VideoSleep
    \/ VideoDone

SpecVideo == InitVideo /\ [][NextVideo]_vars

----------------------------------------------------------------------------
(* _translate_action on its own, called by the for loop of run() on every  *)
(* event of the list pygame.event.get() returned.  The press of BTN_BACK   *)
(* is followed through its loop (lines 392-404) step by step.  The         *)
(* joystick state pygame reports changes when the event queue is pumped;   *)
(* the clock advances by whole seconds up to MaxClock, and only while the  *)
(* loop runs, where alone it is read.                                      *)

\* last value of time.monotonic()
MaxClock == 4

\* line 403: seconds BTN_BACK must be held for
QuitHold == 2

\* the joystick buttons whose state matters to the claims
Buttons == {"BTN_X", "BTN_Y", "BTN_LB", "BTN_RB", "BTN_BACK"}

\* the position of the thread is inside the loop of lines 398-404
Holding == tr_pc \in {"while", "pump", "elapsed"}

InitTranslate ==
    /\ tr_pc = "get"
    /\ tr_event = JoyHat(0, 0)
    /\ held \in SUBSET Buttons
    /\ monotonic = 0
    /\ timestamp = 0
    /\ back_up = FALSE
    /\ read_at = Never
    /\ tr_result = Unset
    /\ NotPlaying
    /\ OthersIdle
    /\ NoBoard
    /\ NotDrawn
    /\ NotStarted

\* what _translate_action never writes
trFrame == <<doors_horiz, doors_vert, start_hidden, doors, pc, state,
             selected_door, play_again, branch, intro_show_list, result,
             sound, passes, frames, action, game_end, selVars, initVars,
             renderVars, mainVars, videoVars, others>>

\* run(), lines 622, 680 and 690: pygame.event.get() returns the events
\* that are queued and pumps the queue
TrGet ==
    /\ tr_pc = "get"
    /\ \E arrived \in 0..(MaxQueue - queue) :
         /\ batch' = queue + arrived
         /\ tr_pc' = IF queue + arrived = 0 THEN "get" ELSE "for"
    /\ queue' = 0
    /\ discarded' = 0
    /\ held' \in SUBSET Buttons
    /\ UNCHANGED <<tr_event, monotonic, timestamp, back_up, read_at, tr_result,
                   trFrame>>

\* run(), lines 622-623: the for loop takes the next event of the list and
\* calls _translate_action on it
TrFor ==
    /\ tr_pc = "for"
    /\ batch > 0
    /\ tr_event' \in Events
    /\ batch' = batch - 1
    /\ tr_result' = Unset
    /\ tr_pc' = "call"
    /\ UNCHANGED <<held, monotonic, timestamp, back_up, read_at, queue, discarded,
                   trFrame>>

\* _translate_action on any event but the press of BTN_BACK
TrReturn ==
    /\ tr_pc = "call"
    /\ ~TranslateClears(tr_event)
    /\ tr_result' = TranslateAction(tr_event, "BTN_X" \in held, FALSE)
    /\ tr_pc' = "returned"
    /\ UNCHANGED <<tr_event, held, monotonic, timestamp, back_up, read_at, batch,
                   queue, discarded, trFrame>>

\* _translate_action, lines 391-394: the press of BTN_BACK.  The
\* pygame.event.clear() throws away what is queued and what arrived since
\* the queue was last pumped.
BackPressed ==
    /\ tr_pc = "call"
    /\ TranslateClears(tr_event)
    /\ timestamp' = monotonic
    /\ \E arrived \in 0..(MaxQueue - queue) : discarded' = queue + arrived
    /\ queue' = 0
    /\ back_up' = FALSE
    /\ read_at' = Never
    /\ tr_pc' = "while"
    /\ UNCHANGED <<tr_event, held, monotonic, tr_result, batch, trFrame>>

\* _translate_action, line 398, and line 440 when the loop is left
BackWhile ==
    /\ tr_pc = "while"
    /\ IF "BTN_BACK" \in held
       THEN /\ read_at' = monotonic
            /\ tr_pc' = "pump"
            /\ UNCHANGED <<back_up, tr_result>>
       ELSE /\ back_up' = TRUE
            /\ tr_result' = None
            /\ tr_pc' = "returned"
            /\ UNCHANGED read_at
    /\ UNCHANGED <<tr_event, held, monotonic, timestamp, batch, queue,
                   discarded, trFrame>>

\* _translate_action, line 401: pygame.event.pump() queues the events that
\* arrived and brings the joystick state up to date
BackPump ==
    /\ tr_pc = "pump"
    /\ held' \in SUBSET Buttons
    /\ \E arrived \in 0..(MaxQueue - queue) : queue' = queue + arrived
    /\ tr_pc' = "elapsed"
    /\ UNCHANGED <<tr_event, monotonic, timestamp, back_up, read_at, tr_result, batch,
                   discarded, trFrame>>

\* line 403 testing >= 2 in place of > 2
BackElapsedAtLeast ==
    /\ tr_pc = "elapsed"
    /\ IF monotonic - timestamp >= QuitHold
       THEN tr_result' = "QUIT" /\ tr_pc' = "returned"
       ELSE tr_pc' = "while" /\ UNCHANGED tr_result
    /\ UNCHANGED <<tr_event, held, monotonic, timestamp, back_up, read_at, batch,
                   queue, discarded, trFrame>>

\* _translate_action, lines 403-404
BackElapsed ==
    /\ tr_pc = "elapsed"
    /\ IF monotonic - timestamp > QuitHold
       THEN tr_result' = "QUIT" /\ tr_pc' = "returned"
       ELSE tr_pc' = "while" /\ UNCHANGED tr_result
    /\ UNCHANGED <<tr_event, held, monotonic, timestamp, back_up, read_at, batch,
                   queue, discarded, trFrame>>

\* A second passes while the loop of lines 398-404 runs.  One turn of the
\* loop (a read of the button, a pump, a subtraction) takes no time on the
\* scale of the clock: the seconds pass between two turns.
Tick ==
    /\ tr_pc = "while"
    /\ monotonic < MaxClock
    /\ monotonic' = monotonic + 1
    /\ UNCHANGED <<tr_pc, tr_event, held, timestamp, back_up, read_at, tr_result,
                   batch, queue, discarded, trFrame>>

\* run(): the handler of the action is over, the for loop goes on or ends;
\* the locals of the call of _translate_action are gone
TrNext ==
    /\ tr_pc = "returned"
    /\ tr_pc' = IF batch > 0 THEN "for" ELSE "get"
    /\ timestamp' = 0
    /\ back_up' = FALSE
    /\ read_at' = Never
    /\ discarded' = 0
    /\ UNCHANGED <<tr_event, held, monotonic, tr_result, batch, queue,
                   trFrame>>

NextTranslate ==
    \/ TrGet
    \/ TrFor
    \/ TrReturn
    \/ BackPressed
    \/ BackWhile
    \/ BackPump
    \/ BackElapsed
    \/ Tick
    \/ TrNext

SpecTranslate == InitTranslate /\ [][NextTranslate]_vars

----------------------------------------------------------------------------
(* MediaPlayer._show_image on its own: every screen up to MaxSurface x      *)
(* MaxSurface, every image up to MaxImage x MaxImage.                       *)

\* the attributes MediaPlayer.__init__ sets (lines 69-97); the class defines
\* no property and has no base class
PlayerAttributes ==
    {"_surface", "_config", "_surface_is_display", "_width", "_height",
     "_date_fmt", "_photo_path", "_photo_files", "_photo_time",
     "_video_path", "_video_files", "_video_probability",
     "_announcement_file", "_announcement_font", "_announcement_time",
     "_announcement_probability", "_announcement_line_spacing", "_joystick"}

\* what Surface.get_bitsize() returns for the images pygame loads
BitSizes == {8, 24, 32}

\* _show_image is called; line 105 has loaded the image
InitImage ==
    /\ image_pc = "call"
    /\ screen \in [width : 1..MaxSurface, height : 1..MaxSurface]
    /\ img \in [width : 1..MaxImage, height : 1..MaxImage, bitsize : BitSizes]
    /\ blit = NoBlit
    /\ image_error = NoImageError
    /\ NotRendering
    /\ NotRunning
    /\ NotPlaying
    /\ NotTranslating
    /\ NoBoard
    /\ NotDrawn
    /\ NotStarted

\* what _show_image never writes
imageFrame == <<boardVars, renderVars, mainVars, videoVars, pressVars,
                textVars, runVars>>

\* _show_image, lines 112-113 and 146-157: the image has the size of the
\* screen and is blitted as it is at (0, 0)
ImageFits ==
    /\ image_pc = "call"
    /\ ~(img.width # screen.width \/ img.height # screen.height)
    /\ blit' = [width |-> img.width, height |-> img.height,
                x |-> 0, y |-> 0, done |-> TRUE]
    /\ image_pc' = "returned"
    /\ UNCHANGED <<screen, img, image_error, imageFrame>>

\* _show_image, lines 112-121: the image has another size; line 121 reads
\* self.screen_height, an attribute that is not there, before anything is
\* scaled or drawn
ImageScale ==
    /\ image_pc = "call"
    /\ img.width # screen.width \/ img.height # screen.height
    /\ "screen_height" \notin PlayerAttributes
    /\ image_error' = [type |-> "AttributeError", line |-> 121]
    /\ image_pc' = "raised"
    /\ UNCHANGED <<screen, img, blit, imageFrame>>

NextImage == ImageFits \/ ImageScale

SpecImage == InitImage /\ [][NextImage]_vars

----------------------------------------------------------------------------
(* TextRenderer.render_surface on its own: every text of up to MaxText      *)
(* characters, every line spacing up to MaxSpacing.                         *)

\* the character at which render_surface splits (line 68)
Backtick == "backtick"

\* the characters of a text: one that is not a backtick, and the backtick
Chars == {"a", Backtick}

Texts == UNION {[1..n -> Chars] : n \in 0..MaxText}

\* the sizes of the surfaces font.render returns: among them an empty
\* width, lines of different heights, and two lines of the same width
RenderedSizes ==
    {[width |-> 0, height |-> 2], [width |-> 1, height |-> 2],
     [width |-> 3, height |-> 1], [width |-> 3, height |-> 3]}

\* str.split at the backtick: the text from character k on; line is what was read of
\* the current line, done the lines before it
RECURSIVE SplitFrom(_, _, _, _)
SplitFrom(t, k, line, done) ==
    IF k > Len(t) THEN Append(done, line)
    ELSE IF t[k] = Backtick THEN SplitFrom(t, k + 1, <<>>, Append(done, line))
    ELSE SplitFrom(t, k + 1, Append(line, t[k]), done)

Split(t) == SplitFrom(t, 1, <<>>, <<>>)

\* render_surface, lines 75-84: the loop over text_surfaces from k on
RECURSIVE MeasureFrom(_, _, _, _)
MeasureFrom(ts, k, height, width) ==
    IF k > Len(ts) THEN [total_height |-> height, max_width |-> width]
    ELSE MeasureFrom(ts, k + 1, height + ts[k].height,
                     IF ts[k].width > width THEN ts[k].width ELSE width)

\* lines 75-86 without line 86: no spacing is added to the height
MeasureNoSpacing(ts, spacing) == MeasureFrom(ts, 1, 0, 0)

\* render_surface, lines 75-86
Measure(ts, spacing) ==
    LET m == MeasureFrom(ts, 1, 0, 0)
    IN  [total_height |-> m.total_height + (Len(ts) - 1) * spacing,
         max_width |-> m.max_width]

\* render_surface is called
InitText ==
    /\ text_pc = "call"
    /\ text \in Texts
    /\ line_spacing \in 0..MaxSpacing
    /\ text_lines = <<>>
    /\ text_surfaces = <<>>
    /\ total_height = 0
    /\ max_width = 0
    /\ text_surface = NoTextSurface
    /\ line_y = 0
    /\ NotShowing
    /\ NotRunning
    /\ NotPlaying
    /\ NotTranslating
    /\ NoBoard
    /\ NotDrawn
    /\ NotStarted

\* what render_surface never writes
textFrame == <<boardVars, renderVars, mainVars, videoVars, pressVars,
               imageVars, runVars>>

\* render_surface, lines 68-70
TextSplit ==
    /\ text_pc = "call"
    /\ text_lines' = Split(text)
    /\ text_surfaces' = <<>>
    /\ text_pc' = "render"
    /\ UNCHANGED <<text, line_spacing, total_height, max_width, text_surface,
                   line_y, textFrame>>

\* render_surface, lines 72-73: one line is rendered
TextRender ==
    /\ text_pc = "render"
    /\ Len(text_surfaces) < Len(text_lines)
    /\ \E size \in RenderedSizes : text_surfaces' = Append(text_surfaces, size)
    /\ UNCHANGED <<text_pc, text, line_spacing, text_lines, total_height,
                   max_width, text_surface, line_y, textFrame>>

\* render_surface, lines 75-90: the lines are measured and the surface is
\* created
TextMeasure ==
    /\ text_pc = "render"
    /\ Len(text_surfaces) = Len(text_lines)
    /\ LET m == Measure(text_surfaces, line_spacing)
       IN  /\ total_height' = m.total_height
           /\ max_width' = m.max_width
           /\ text_surface' = [width |-> m.max_width, height |-> m.total_height,
                               blits |-> <<>>, made |-> TRUE]
    /\ line_y' = 0
    /\ text_pc' = "blit"
    /\ UNCHANGED <<text, line_spacing, text_lines, text_surfaces, textFrame>>

\* render_surface, lines 92-99: one line is blitted
TextBlit ==
    /\ text_pc = "blit"
    /\ Len(text_surface.blits) < Len(text_surfaces)
    /\ LET ts == text_surfaces[Len(text_surface.blits) + 1]
       IN  /\ text_surface' =
                [text_surface EXCEPT
                    !.blits = Append(@, [x |-> (max_width - ts.width) \div 2,
                                         y |-> line_y])]
           /\ line_y' = line_y + ts.height + line_spacing
    /\ UNCHANGED <<text_pc, text, line_spacing, text_lines, text_surfaces,
                   total_height, max_width, textFrame>>

\* render_surface, line 101
TextReturn ==
    /\ text_pc = "blit"
    /\ Len(text_surface.blits) = Len(text_surfaces)
    /\ text_pc' = "returned"
    /\ UNCHANGED <<text, line_spacing, text_lines, text_surfaces,
                   total_height, max_width, text_surface, line_y, textFrame>>

NextText ==
    \/ TextSplit
    \/ TextRender
    \/ TextMeasure
    \/ TextBlit
    \/ TextReturn

SpecText == InitText /\ [][NextText]_vars

----------------------------------------------------------------------------
(* MediaPlayer.run and the loop of main() that calls it (main.py, lines    *)
(* 74-82): every date of a calendar of two months of MaxDay days, the       *)
(* announcement files of AnnouncementFiles, every photo folder of up to     *)
(* MaxPhotos photos, with and without a video.  The user's events come into *)
(* the event queue at any time.                                            *)

Months == 1..2
Days == 1..MaxDay

\* the dates as the announcement file writes them: month and day
Dates == Months \X Days

\* datetime.strptime(text, date_fmt).date(): the date, as the number of its
\* day in the year
Strptime(t) == (t[1] - 1) * MaxDay + t[2]

\* an item of the announcement file
Item(s, e) == [start_date |-> s, end_date |-> e]

\* The announcement files: an empty one; one item from 1/2 to 2/1; that
\* item and one from 2/1 to 2/2; one item whose end is before its start.
AnnouncementFiles ==
    { <<>>,
      <<Item(<<1, 2>>, <<2, 1>>)>>,
      <<Item(<<1, 2>>, <<2, 1>>), Item(<<2, 1>>, <<2, 2>>)>>,
      <<Item(<<2, 2>>, <<1, 1>>)>> }

\* the photo folders: for each photo, by name, whether it has the size of
\* the screen
PhotoDirs == UNION {[1..n -> BOOLEAN] : n \in 0..MaxPhotos}

\* the events the user sends while the media player runs
Pressed == {KeyDown("K_ESCAPE", {}), JoyButton("BTN_START"), KeyDown("K_a", {})}

\* lines 321-322 with < and > in place of <= and >=
InRangeExclusive(ann_start_date, ann_end_date, date) ==
    ann_start_date < date /\ ann_end_date > date

\* run(), lines 321-322
InRange(ann_start_date, ann_end_date, date) ==
    ann_start_date <= date /\ ann_end_date >= date

\* run(), lines 312-342: the loop over the items of the file from item k on
RECURSIVE ReadAnnouncementsFrom(_, _, _, _)
ReadAnnouncementsFrom(data, date, k, anns) ==
    IF k > Len(data) THEN anns
    ELSE LET ann_start_date == Strptime(data[k].start_date)
             ann_end_date == Strptime(data[k].end_date)
         IN  ReadAnnouncementsFrom(data, date, k + 1,
                 IF InRange(ann_start_date, ann_end_date, date)
                 THEN Append(anns, Item(ann_start_date, ann_end_date))
                 ELSE anns)

ReadAnnouncements(data, date) == ReadAnnouncementsFrom(data, date, 1, <<>>)

\* main() is about to construct the first MediaPlayer
InitPlayer ==
    /\ run_pc = "main"
    /\ today \in Dates
    /\ announcement_data \in AnnouncementFiles
    /\ photo_dir \in PhotoDirs
    /\ video_dir \in 0..1
    /\ current_date = 0
    /\ announcements = <<>>
    /\ photos = <<>>
    /\ videos = 0
    /\ photo = 0
    /\ pending = <<>>
    /\ sleeps_left = 0
    /\ display = NoDisplay
    /\ shown = {}
    /\ run_result = Unset
    /\ NotShowing
    /\ NotRendering
    /\ NotPlaying
    /\ NotTranslating
    /\ NoBoard
    /\ NotDrawn
    /\ NotStarted

\* what neither main() nor MediaPlayer.run writes
playerFrame == <<boardVars, renderVars, mainVars, videoVars, pressVars,
                 imageVars, textVars, today, announcement_data, photo_dir,
                 video_dir>>

\* main(), lines 74-80: a MediaPlayer is constructed and its run() called
MainPlayer ==
    /\ run_pc = "main"
    /\ run_pc' = "run"
    /\ run_result' = Unset
    /\ display' = NoDisplay
    /\ shown' = {}
    /\ UNCHANGED <<current_date, announcements, photos, videos, photo,
                   pending, sleeps_left, playerFrame>>

\* run(), lines 298-363: the date is read, the announcements in range are
\* kept, the folders are listed and the photos sorted by name
RunScan ==
    /\ run_pc = "run"
    /\ current_date' = Strptime(today)
    /\ announcements' = ReadAnnouncements(announcement_data, Strptime(today))
    /\ photos' = photo_dir
    /\ videos' = video_dir
    /\ photo' = 0
    /\ run_pc' = "for"
    /\ UNCHANGED <<pending, sleeps_left, display, shown, run_result,
                   playerFrame>>

\* run(), line 369: the for loop takes the next photo
RunNextPhoto ==
    /\ run_pc = "for"
    /\ photo < Len(photos)
    /\ photo' = photo + 1
    /\ run_pc' = "check"
    /\ UNCHANGED <<current_date, announcements, photos, videos, pending,
                   sleeps_left, display, shown, run_result, playerFrame>>

\* run(), lines 369 and 420: no photo is left and True is returned
RunReturnTrue ==
    /\ run_pc = "for"
    /\ photo = Len(photos)
    /\ run_result' = "True"
    /\ run_pc' = "returned"
    /\ UNCHANGED <<current_date, announcements, photos, videos, photo,
                   pending, sleeps_left, display, shown, playerFrame>>

\* `if self._check_for_quit(): return False` at position at of run():
\* pygame.event.get() takes every event out of the queue; without a quit
\* event among them run() goes on at position to with left sleeps to make
CheckThen(at, to, left) ==
    /\ run_pc = at
    /\ pending' = <<>>
    /\ IF CheckForQuit(pending)
       THEN /\ run_result' = "False"
            /\ run_pc' = "returned"
            /\ sleeps_left' = sleeps_left
       ELSE /\ run_result' = run_result
            /\ run_pc' = to
            /\ sleeps_left' = left
    /\ UNCHANGED <<current_date, announcements, photos, videos, photo,
                   display, shown, playerFrame>>

\* run(), lines 371-372
RunCheckFirst ==
    /\ run_pc = "check"
    /\ CheckThen("check", "show", sleeps_left)

\* run(), lines 374-376: the photo has the size of the screen and
\* _show_image blits it
RunShowImage ==
    /\ run_pc = "show"
    /\ photos[photo]
    /\ display' = [NoDisplay EXCEPT !.kind = "photo", !.photo = photo]
    /\ shown' = shown \cup {photo}
    /\ sleeps_left' = WaitSleeps
    /\ run_pc' = "wait"
    /\ UNCHANGED <<current_date, announcements, photos, videos, photo,
                   pending, run_result, playerFrame>>

\* run(), line 374: the photo has another size and _show_image raises
\* AttributeError at its line 121, which nothing up to main() catches
RunShowImageRaises ==
    /\ run_pc = "show"
    /\ ~photos[photo]
    /\ "screen_height" \notin PlayerAttributes
    /\ run_pc' = "raised"
    /\ UNCHANGED <<current_date, announcements, photos, videos, photo,
                   pending, sleeps_left, display, shown, run_result,
                   playerFrame>>

\* run(), lines 378-384: one turn of the wait loop of the photo
RunPhotoWait ==
    /\ sleeps_left > 0
    /\ CheckThen("wait", "wait", sleeps_left - 1)

\* run(), line 378: the time of the photo is over
RunPhotoWaited ==
    /\ run_pc = "wait"
    /\ sleeps_left = 0
    /\ run_pc' = "announce"
    /\ UNCHANGED <<current_date, announcements, photos, videos, photo,
                   pending, sleeps_left, display, shown, run_result,
                   playerFrame>>

\* run(), lines 389-396: random.random() decides for an announcement (roll)
\* and random.choice picks one of the list, if there is any
RunAnnouncement ==
    /\ run_pc = "announce"
    /\ \E roll \in BOOLEAN :
         IF roll /\ announcements # <<>>
         THEN /\ \E k \in DOMAIN announcements :
                   display' = [NoDisplay EXCEPT
                                 !.kind = "announcement",
                                 !.start_date = announcements[k].start_date,
                                 !.end_date = announcements[k].end_date]
              /\ sleeps_left' = WaitSleeps
              /\ run_pc' = "announced"
         ELSE /\ display' = display
              /\ sleeps_left' = sleeps_left
              /\ run_pc' = "check_again"
    /\ UNCHANGED <<current_date, announcements, photos, videos, photo,
                   pending, shown, run_result, playerFrame>>

\* run(), lines 398-404: one turn of the wait loop of the announcement
RunAnnouncementWait ==
    /\ sleeps_left > 0
    /\ CheckThen("announced", "announced", sleeps_left - 1)

\* run(), line 398: the time of the announcement is over
RunAnnouncementWaited ==
    /\ run_pc = "announced"
    /\ sleeps_left = 0
    /\ run_pc' = "check_again"
    /\ UNCHANGED <<current_date, announcements, photos, videos, photo,
                   pending, sleeps_left, display, shown, run_result,
                   playerFrame>>

\* run(), lines 407-408
RunCheckSecond ==
    /\ run_pc = "check_again"
    /\ CheckThen("check_again", "video", sleeps_left)

\* run(), lines 413-415: random.random() decides for a video (roll), if
\* there is any, and _show_video starts the player process
RunVideo ==
    /\ run_pc = "video"
    /\ \E roll \in BOOLEAN :
         IF roll /\ videos > 0
         THEN /\ display' = [NoDisplay EXCEPT !.kind = "video"]
              /\ run_pc' = "playing"
         ELSE /\ display' = display
              /\ run_pc' = "for"
    /\ UNCHANGED <<current_date, announcements, photos, videos, photo,
                   pending, sleeps_left, shown, run_result, playerFrame>>

\* _show_video, line 178: proc.poll() returns a return code other than 0,
\* the loop is left and True returned
RunVideoOver ==
    /\ run_pc = "playing"
    /\ run_pc' = "for"
    /\ UNCHANGED <<current_date, announcements, photos, videos, photo,
                   pending, sleeps_left, display, shown, run_result,
                   playerFrame>>

\* _show_video, lines 178-192: proc.poll() returns None or 0; on a quit
\* event the process is killed and False returned, to _show_video's caller
\* and by line 418 to the caller of run()
RunVideoCheck ==
    /\ run_pc = "playing"
    /\ CheckThen("playing", "playing", sleeps_left)

\* main(), lines 74-80: run() returned True and the loop goes on
MainAgain ==
    /\ run_pc = "returned"
    /\ run_result = "True"
    /\ run_pc' = "main"
    /\ UNCHANGED <<current_date, announcements, photos, videos, photo,
                   pending, sleeps_left, display, shown, run_result,
                   playerFrame>>

\* main(), lines 80-85: run() returned False and main() goes on to the
\* activity board
MainBoard ==
    /\ run_pc = "returned"
    /\ run_result = "False"
    /\ run_pc' = "board"
    /\ UNCHANGED <<current_date, announcements, photos, videos, photo,
                   pending, sleeps_left, display, shown, run_result,
                   playerFrame>>

\* the user presses a key or a button
UserEvent ==
    /\ run_pc \notin {"off", "board", "raised"}
    /\ Len(pending) < MaxPending
    /\ \E e \in Pressed : pending' = Append(pending, e)
    /\ UNCHANGED <<run_pc, current_date, announcements, photos, videos,
                   photo, sleeps_left, display, shown, run_result,
                   playerFrame>>

\* the steps of the thread of main()
PlayerThread ==
    \/ MainPlayer
    \/ RunScan
    \/ RunNextPhoto
    \/ RunReturnTrue
    \/ RunCheckFirst
    \/ RunShowImage
    \/ RunShowImageRaises
    \/ RunPhotoWait
    \/ RunPhotoWaited
    \/ RunAnnouncement
    \/ RunAnnouncementWait
    \/ RunAnnouncementWaited
    \/ RunCheckSecond
    \/ RunVideo
    \/ RunVideoOver
    \/ RunVideoCheck
    \/ MainAgain
    \/ MainBoard

NextPlayer == PlayerThread \/ UserEvent

SpecPlayer == InitPlayer /\ [][NextPlayer]_vars

\* the thread of main() goes on whenever it can
SpecPlayerFair == SpecPlayer /\ WF_vars(PlayerThread)

----------------------------------------------------------------------------
(* Properties *)

Selected == {i \in DOMAIN doors : doors[i].is_selected}

\* the for loop of the SELECTING branch (lines 622-678) takes its next event
SelectingStep == pc = "foreach" /\ branch = "SELECTING"

\* C1: from the end of START on, in every state up to and after the return
\* of run(), exactly one door has is_selected = TRUE, and it is the door the
\* cursor selected_door designates.
C1_OneSelected ==
    state \in States \ {"START"} =>
        /\ Cardinality(Selected) = 1
        /\ Selected = {selected_door}

\* C1 witness: the cursor was moved off door 0 and a second move was handled
C1_Witness ==
    /\ state = "SELECTING"
    /\ action \in Directions
    /\ sound = "move"
    /\ selected_door = 1
    /\ doors[0].is_open

Edges ==
    { <<Unset, "START">>, <<"START", "SELECTING">>,
      <<"SELECTING", "IN_PROGRESS">>, <<"IN_PROGRESS", "SELECTING">>,
      <<"SELECTING", "ALL_REVEALED">>, <<"SELECTING", "GAME_OVER">>,
      <<"ALL_REVEALED", "GAME_OVER">> }

\* C2: every change of the engine state follows an edge of the state
\* machine START -> SELECTING -> {IN_PROGRESS -> SELECTING | ALL_REVEALED}
\* -> GAME_OVER, START being the first state.
C2_OnlyEdges == [][state' # state => <<state, state'>> \in Edges]_vars

\* C3: once the state is GAME_OVER it stays GAME_OVER and no door changes.
C3_GameOverTerminal ==
    [][state = "GAME_OVER" => state' = "GAME_OVER" /\ doors' = doors]_vars

\* C4: after Restart was handled in SELECTING the state is GAME_OVER until
\* run() returns, and run() returns TRUE.
C4_RestartDirect ==
    (game_end.action = "RESTART" /\ game_end.in_state = "SELECTING") =>
        /\ state = "GAME_OVER"
        /\ pc = "returned" => result = TRUE

\* C5: run() returns only after Restart or Quit was handled in SELECTING or
\* ALL_REVEALED, and returns TRUE exactly when that action was Restart and
\* FALSE exactly when it was Quit.
C5_Outcome ==
    pc = "returned" =>
        /\ game_end.action \in {"RESTART", "QUIT"}
        /\ game_end.in_state \in {"SELECTING", "ALL_REVEALED"}
        /\ result = TRUE <=> game_end.action = "RESTART"
        /\ result = FALSE <=> game_end.action = "QUIT"

RowOf(i) == i \div doors_horiz
ColOf(i) == i % doors_horiz

LeavesGrid(i, dir) ==
    \/ dir = "UP" /\ RowOf(i) = 0
    \/ dir = "DOWN" /\ RowOf(i) = doors_vert - 1
    \/ dir = "LEFT" /\ ColOf(i) = 0
    \/ dir = "RIGHT" /\ ColOf(i) = doors_horiz - 1

\* C6: a direction that would leave the grid returns the index unchanged;
\* any other direction changes the row (UP, DOWN) or the column (LEFT,
\* RIGHT) by exactly one, keeps the other coordinate, and the index returned
\* is row * doors_horiz + col.
C6_Selection ==
    sel_action \in Directions =>
        IF LeavesGrid(selected_door, sel_action)
        THEN sel_result = selected_door
        ELSE LET row == RowOf(selected_door) + (IF sel_action = "DOWN" THEN 1
                            ELSE IF sel_action = "UP" THEN -1 ELSE 0)
                 col == ColOf(selected_door) + (IF sel_action = "RIGHT" THEN 1
                            ELSE IF sel_action = "LEFT" THEN -1 ELSE 0)
             IN  /\ sel_result = row * doors_horiz + col
                 /\ sel_result \in DOMAIN doors
                 /\ RowOf(sel_result) = row
                 /\ ColOf(sel_result) = col

\* C6 witness: LEFT from column 0 of the second row of a grid with several
\* columns returned the index unchanged
C6_Witness ==
    /\ sel_action = "LEFT"
    /\ doors_horiz > 1
    /\ ColOf(selected_door) = 0
    /\ RowOf(selected_door) = 1
    /\ sel_result = selected_door

\* C7: when the SELECTING branch handles OPEN in state SELECTING with the
\* selected door already open, no flag of any door changes, the state stays
\* SELECTING, the oops cue is played and no opening animation runs.
C7_OpenAgain ==
    [][(/\ SelectingStep
        /\ action' = "OPEN"
        /\ state = "SELECTING"
        /\ doors[selected_door].is_open)
       => (/\ doors' = doors
           /\ state' = "SELECTING"
           /\ selected_door' = selected_door
           /\ sound' = "oops"
           /\ frames' = <<>>)]_vars

\* C7 witness: OPEN was handled on an open door
C7_Witness ==
    /\ action = "OPEN"
    /\ sound = "oops"
    /\ state = "SELECTING"
    /\ doors[selected_door].is_open

\* C8: when a redraw pass returns no door is dirty; _draw_updated_doors drew
\* exactly the doors dirty on entry and _draw_all_doors drew every door.
C8_RedrawPasses ==
    \A k \in 1..Len(passes) :
        /\ passes[k].left = {}
        /\ passes[k].kind = "updated" => passes[k].drawn = passes[k].dirty
        /\ passes[k].kind = "all" => passes[k].drawn = DOMAIN doors

\* C8 witness: a move redrew exactly the two doors it changed, on a grid
\* with more than two doors
C8_Witness ==
    /\ sound = "move"
    /\ Len(passes) = 1
    /\ passes[1].kind = "updated"
    /\ Cardinality(passes[1].drawn) = 2
    /\ Cardinality(DOMAIN doors) > 2

\* C9: when the reveal-all animation has completed every door is revealed,
\* and a door renders its activity in the activity colour exactly when it
\* was open when Reveal was handled, every other door in the unused colour.
C9_RevealColors ==
    [][(SelectingStep /\ action' = "REVEAL")
       => \A d \in DOMAIN doors :
            /\ doors'[d].is_revealed
            /\ Variant(doors'[d]) = "revealed"
            /\ doors[d].is_open => TextColor(doors'[d]) = "activity_color"
            /\ ~doors[d].is_open => TextColor(doors'[d]) = "unused_color"]_vars

\* C9 witness: a 2 x 2 grid revealed with only door 2 opened
C9_Witness ==
    /\ action = "REVEAL"
    /\ state = "ALL_REVEALED"
    /\ doors_horiz = 2 /\ doors_vert = 2
    /\ \A d \in DOMAIN doors :
         /\ doors[d].is_revealed
         /\ doors[d].is_open <=> d = 2
         /\ TextColor(doors[d]) = "activity_color" <=> d = 2

\* C10: whenever the opening animation runs, pct_open rises strictly from
\* the value the door had when it started to 100 in equal steps, is 100 only
\* in the last frame, and every step is drawn.
C10_OpenRamp ==
    [][(SelectingStep /\ frames' # <<>>)
       => LET from == doors[selected_door].pct_open
              step == frames'[1] - from
          IN  /\ step > 0
              /\ \A k \in 1..Len(frames') : frames'[k] = from + k * step
              /\ frames'[Len(frames')] = 100
              /\ doors'[selected_door].pct_open = 100]_vars

\* C11: the step that takes the engine from START to SELECTING, with
\* start_hidden true or false, leaves exactly door 0 selected, no door
\* hidden, and no door open or revealed.
C11_FirstSelecting ==
    [][(state = "START" /\ state' = "SELECTING")
       => (/\ {i \in DOMAIN doors' : doors'[i].is_selected} = {0}
           /\ selected_door' = 0
           /\ \A i \in DOMAIN doors' :
                /\ ~doors'[i].is_hidden
                /\ ~doors'[i].is_open
                /\ ~doors'[i].is_revealed)]_vars

\* C11 witness: a board that started hidden has just finished its intro on
\* a grid of four doors and selected door 0
C11_Witness ==
    /\ start_hidden
    /\ state = "SELECTING"
    /\ pc = "loop"
    /\ branch = Unset
    /\ Cardinality(DOMAIN doors) = 4
    /\ Selected = {0}
    /\ \A i \in DOMAIN doors : ~doors[i].is_hidden

\* the surface is no whole number of doors wide or high
BadSurface ==
    \/ surface.width % doors_horiz # 0
    \/ surface.height % doors_vert # 0

\* __init__ has returned a board
Built == pc \notin {"init", "build", "raised"}

\* C12: when the surface width is no multiple of doors_horiz or the surface
\* height is no multiple of doors_vert, __init__ ends by raising its
\* configuration error before the activity file is read or a door is built,
\* and never returns a board.
C12_BadSurface ==
    BadSurface =>
        /\ pc \in {"init", "raised"}
        /\ pc = "raised" => raised \in {WidthError, HeightError}
        /\ activities = <<>>
        /\ door_list = <<>>
        /\ doors = <<>>

\* C12 witness: a grid two doors high on a surface of height 1, whose width
\* passed the first check, was refused
C12_Witness ==
    /\ pc = "raised"
    /\ raised = HeightError
    /\ doors_vert = 2
    /\ surface.height = 1
    /\ doors = <<>>

\* the activity file has fewer lines than the grid has doors
ShortPool == Len(activity_file) < NumDoors(doors_horiz, doors_vert)

\* C13: when the activity file has fewer lines than the grid has doors (and
\* the surface fits), __init__ ends by raising a configuration error, and no
\* door list is kept.
C13_ShortPool ==
    (ShortPool /\ ~BadSurface /\ pc \notin {"init", "build"}) =>
        /\ pc = "raised"
        /\ raised.type = "RuntimeError"
        /\ door_list = <<>>
        /\ doors = <<>>

\* the lines of a file
LinesOf(file) == {file[k] : k \in 1..Len(file)}

\* no line comes twice
Distinct(file) == \A j, k \in 1..Len(file) : j # k => file[j] # file[k]

\* C14: a board built from a file of distinct lines, at least as many as
\* the grid has doors, has exactly num_doors doors, door i has index i, the
\* activity of every door is a line of the file, no two doors have the same
\* activity, and no step of the game changes an index or an activity.
C14_Doors ==
    [][(Distinct(activity_file) /\ ~ShortPool /\ Built')
       => (/\ DOMAIN doors' = 0..(NumDoors(doors_horiz, doors_vert) - 1)
           /\ \A i \in DOMAIN doors' :
                /\ doors'[i].index = i
                /\ doors'[i].activity \in LinesOf(activity_file)
                /\ \A j \in DOMAIN doors' :
                     j # i => doors'[j].activity # doors'[i].activity
           /\ Built =>
                \A i \in DOMAIN doors :
                    /\ doors'[i].index = doors[i].index
                    /\ doors'[i].activity = doors[i].activity)]_vars

\* C14 witness: two doors built from a file of three lines, the last line
\* chosen first, after the game opened one door and revealed all
C14_Witness ==
    /\ state = "ALL_REVEALED"
    /\ activity_file = Lines(3)
    /\ DOMAIN doors = {0, 1}
    /\ doors[0].activity = 3
    /\ doors[1].activity = 1
    /\ doors[1].is_open
    /\ doors[0].is_revealed

\* the keys _translate_action knows (lines 419-438)
MappedKeys ==
    {"K_UP", "K_w", "K_DOWN", "K_s", "K_LEFT", "K_a", "K_RIGHT", "K_d",
     "K_RETURN", "K_SPACE", "K_BACKSPACE", "K_ESCAPE", "K_z", "K_HOME", "K_q"}

\* the joystick buttons _translate_action knows (lines 382-390)
MappedButtons == {"BTN_A", "BTN_B", "BTN_Y", "BTN_START", "BTN_BACK"}

\* an input that stands for no action: an unknown key, an unmapped button,
\* a diagonal hat motion, Y without X held, Back released early
NoActionInput(event, x_held, back_held) ==
    \/ event.type = "KEYDOWN" /\ event.key \notin MappedKeys
    \/ event.type = "JOYBUTTONDOWN" /\ event.button \notin MappedButtons
    \/ event.type = "JOYHATMOTION" /\ event.value[1] # 0 /\ event.value[2] # 0
    \/ event.type = "JOYBUTTONDOWN" /\ event.button = "BTN_Y" /\ ~x_held
    \/ event.type = "JOYBUTTONDOWN" /\ event.button = "BTN_BACK" /\ ~back_held

\* _translate_action turns every input into an action or into None, and
\* into None every input that stands for no action
TranslationTotal ==
    \A i \in Inputs :
        /\ TranslateAction(i[1], i[2], i[3]) \in Actions \cup {None}
        /\ NoActionInput(i[1], i[2], i[3])
              => TranslateAction(i[1], i[2], i[3]) = None

\* C15: _translate_action turns every event into an action or into None,
\* and into None every unknown key, unmapped button, diagonal hat motion, Y
\* without X held and Back released early; the step that handles an event
\* translated into None, in whatever state, changes neither the state nor
\* the cursor nor any field of any door.
C15_NoAction ==
    [][/\ TranslationTotal
       /\ (pc = "foreach" /\ action' = None)
            => (/\ state' = state
                /\ selected_door' = selected_door
                /\ doors' = doors
                /\ play_again' = play_again)]_vars

\* C15 witness: an event translated into None was handled after every door
\* was revealed
C15_Witness ==
    /\ action = None
    /\ branch = "ALL_REVEALED"
    /\ state = "ALL_REVEALED"
    /\ \A i \in DOMAIN doors : doors[i].is_revealed

\* C16: when a step of the SELECTING branch has run the opening animation
\* or the reveal-all animation, the event queue is empty and the list being
\* iterated has lost only the event just handled: the events that arrived
\* while the animation ran were discarded, none is handled later.
C16_AnimationDiscards ==
    [][(SelectingStep /\ (frames' # <<>> \/ action' = "REVEAL"))
       => (/\ queue' = 0
           /\ batch' = batch - 1)]_vars

\* C16 witness: events arrived while the opening animation ran and were
\* discarded
C16_Witness ==
    /\ action = "OPEN"
    /\ frames # <<>>
    /\ discarded > 0
    /\ queue = 0
    /\ batch = 0

\* the fields of a door get_door_surface renders from
Visual(d) == <<d.is_selected, d.is_open, d.is_revealed, d.is_hidden, d.pct_open>>

\* C17: in every step, a door whose is_selected, is_open, is_revealed,
\* is_hidden or pct_open changed had its is_updated flag set in that step:
\* it was dirty on entry of a redraw pass of the step, or is dirty after it.
C17_ChangeSetsUpdated ==
    [][\A i \in DOMAIN doors :
         (i \in DOMAIN doors' /\ Visual(doors'[i]) # Visual(doors[i]))
         => \/ doors'[i].is_updated
            \/ \E k \in 1..Len(passes') : i \in passes'[k].dirty]_vars

\* C18: the variant get_door_surface renders is fixed by the flags, by
\* priority: is_hidden gives the blank variant; else is_open and not
\* is_revealed the cross; else is_revealed the activity; else the door,
\* with the border of a selected or an unselected door and with the window
\* on the activity exactly when pct_open > 0.
C18_Variant ==
    door_surface # NoSurface =>
        LET d == drawn_door
            hidden == d.is_hidden
            crossed == ~hidden /\ d.is_open /\ ~d.is_revealed
            revealed == ~hidden /\ ~crossed /\ d.is_revealed
            default == ~hidden /\ ~crossed /\ ~revealed
        IN  /\ hidden <=> door_surface.variant = "blank"
            /\ crossed <=> door_surface.variant = "cross"
            /\ revealed <=> door_surface.variant = "revealed"
            /\ default <=> door_surface.variant = "door"
            /\ default =>
                 /\ door_surface.border = "selection_color" <=> d.is_selected
                 /\ door_surface.border = "bg_color" <=> ~d.is_selected
                 /\ door_surface.window <=> d.pct_open > 0
            /\ ~default => ~door_surface.window

\* C18 witness: a door that is hidden, open, revealed and selected, half
\* open, was rendered blank
C18_Witness ==
    /\ door_surface.variant = "blank"
    /\ drawn_door.is_hidden
    /\ drawn_door.is_open
    /\ drawn_door.is_revealed
    /\ drawn_door.is_selected
    /\ drawn_door.pct_open = 50

\* C19: from the first step of run() on, the engine state is one of START,
\* SELECTING, IN_PROGRESS, ALL_REVEALED and GAME_OVER, so the else of line
\* 705 is never taken.
C19_ValidState ==
    pc # "new" => state \in States

\* C19 witness: run() went through SELECTING, IN_PROGRESS, SELECTING and
\* ALL_REVEALED to GAME_OVER and returned
C19_Witness ==
    /\ pc = "returned"
    /\ state = "GAME_OVER"
    /\ game_end.in_state = "ALL_REVEALED"
    /\ \E i \in DOMAIN doors : doors[i].is_open

\* C20: in main(), run() is called only on an ActivityBoard whose run() was
\* not called before; after board.run() returned TRUE the next step
\* constructs a new board, after it returned FALSE the next step goes back
\* to the loop of the media player; and a board is constructed only when
\* the last run() that returned was a player's returning FALSE or a board's
\* returning TRUE.
C20_FreshBoard ==
    [][/\ main_pc = "board_run" => board \notin ran
       /\ (last_run.by = "board" /\ main_pc = "board_loop" /\ last_run.value)
            => (/\ main_pc' = "board_run"
                /\ board' \notin boards \cup {player} \cup ran)
       /\ (last_run.by = "board" /\ main_pc = "board_loop" /\ ~last_run.value)
            => (main_pc' = "player_loop" /\ board' = board)
       /\ board' # board
            => \/ last_run.by = "player" /\ ~last_run.value
               \/ last_run.by = "board" /\ last_run.value]_vars

\* C20 witness: board.run() returned TRUE and a second board was constructed
\* whose run() is about to be called
C20_Witness ==
    /\ main_pc = "board_run"
    /\ last_run = [by |-> "board", value |-> TRUE]
    /\ Cardinality(boards) = 2
    /\ board \notin ran

\* C21: _show_video leaves its loop as soon as poll() finds that the player
\* process has exited on its own, with whatever return code, and then
\* returns TRUE; it returns FALSE exactly when _check_for_quit saw a quit
\* request.
C21_ShowVideo ==
    [][/\ (video_pc = "while" /\ proc.exited) => video_pc' = "done"
       /\ (video_pc # "returned" /\ video_pc' = "returned")
            => (/\ video_result' = FALSE <=> video_quit
                /\ video_result' = TRUE <=> (proc.exited /\ ~video_quit))]_vars

C23_Combinations ==
    (tr_pc = "returned" /\ tr_event.type = "JOYBUTTONDOWN") =>
        LET down == held \cup {tr_event.button}
        IN  /\ tr_result = "QUIT"
                 => {"BTN_LB", "BTN_RB", "BTN_BACK"} \subseteq held
            /\ tr_result = "REVEAL" => {"BTN_X", "BTN_Y"} \subseteq down
            /\ (/\ tr_event.button \in {"BTN_X", "BTN_Y"}
                /\ {"BTN_X", "BTN_Y"} \subseteq down)
                 => tr_result = "REVEAL"

\* the fields of a door but is_selected and is_updated
Opening(d) == <<d.is_open, d.is_revealed, d.is_hidden, d.pct_open>>

\* the doors whose is_selected differs between ds and es
Reselected(ds, es) == {i \in DOMAIN ds : es[i].is_selected # ds[i].is_selected}

\* C24: when the SELECTING branch handles a directional action in state
\* SELECTING, then if the direction stays on the grid exactly two doors
\* change is_selected (the old door to FALSE, the new one to TRUE), no
\* is_open, is_revealed, is_hidden or pct_open changes, the move cue is
\* played and one redraw pass draws exactly those two doors; if the
\* direction leaves the grid no field of any door changes, the cursor
\* stays, no cue is played and no redraw pass is made.
C24_MoveFrame ==
    [][(SelectingStep /\ state = "SELECTING" /\ action' \in Directions)
       => (/\ state' = "SELECTING"
           /\ \A i \in DOMAIN doors : Opening(doors'[i]) = Opening(doors[i])
           /\ IF LeavesGrid(selected_door, action')
              THEN /\ doors' = doors
                   /\ selected_door' = selected_door
                   /\ sound' = None
                   /\ passes' = <<>>
              ELSE /\ selected_door' # selected_door
                   /\ Reselected(doors, doors') = {selected_door, selected_door'}
                   /\ ~doors'[selected_door].is_selected
                   /\ doors'[selected_door'].is_selected
                   /\ sound' = "move"
                   /\ Len(passes') = 1
                   /\ passes'[1].drawn = {selected_door, selected_door'})]_vars

\* C24 witness: on the 2 x 2 grid the cursor was moved from door 1 down to
\* door 3 while door 0 was open, and doors 1 and 3 were redrawn
C24_Witness ==
    /\ state = "SELECTING"
    /\ branch = "SELECTING"
    /\ action = "DOWN"
    /\ selected_door = 3
    /\ doors[0].is_open
    /\ sound = "move"
    /\ Len(passes) = 1
    /\ passes[1].drawn = {1, 3}

\* C25: when the SELECTING branch handles OPEN in state SELECTING with the
\* selected door closed, the open cue is played, the opening animation
\* runs to 100 on the selected door, that door and no other becomes open,
\* the state becomes IN_PROGRESS, the cursor stays, no field of any other
\* door changes, and of the selected door is_selected, is_revealed and
\* is_hidden stay as they were.
C25_OpenFrame ==
    [][(/\ SelectingStep
        /\ state = "SELECTING"
        /\ action' = "OPEN"
        /\ ~doors[selected_door].is_open)
       => (/\ sound' = "open"
           /\ frames' # <<>>
           /\ frames'[Len(frames')] = 100
           /\ doors'[selected_door].pct_open = 100
           /\ {i \in DOMAIN doors : doors'[i].is_open /\ ~doors[i].is_open}
                = {selected_door}
           /\ state' = "IN_PROGRESS"
           /\ selected_door' = selected_door
           /\ passes' = <<>>
           /\ \A i \in DOMAIN doors \ {selected_door} : doors'[i] = doors[i]
           /\ doors'[selected_door].is_selected
           /\ doors'[selected_door].is_revealed
                = doors[selected_door].is_revealed
           /\ doors'[selected_door].is_hidden
                = doors[selected_door].is_hidden)]_vars

\* C25 witness: on the 2 x 2 grid door 0 was opened earlier, the cursor was
\* moved to door 3 and door 3 has just been opened
C25_Witness ==
    /\ state = "IN_PROGRESS"
    /\ branch = "SELECTING"
    /\ action = "OPEN"
    /\ sound = "open"
    /\ selected_door = 3
    /\ {i \in DOMAIN doors : doors[i].is_open} = {0, 3}
    /\ doors[3].pct_open = 100
    /\ Selected = {3}

\* the for loop of the IN_PROGRESS branch (lines 680-688) takes its next event
InProgressStep == pc = "foreach" /\ branch = "IN_PROGRESS"

\* C26: when the IN_PROGRESS branch handles RETURN in state IN_PROGRESS,
\* one redraw pass draws every door, the state becomes SELECTING, the
\* cursor and is_selected, is_open, is_revealed, is_hidden and pct_open of
\* every door stay as they were, and the selected door is the door that
\* was opened: it is open, with pct_open = 100.
C26_ReturnFrame ==
    [][(InProgressStep /\ state = "IN_PROGRESS" /\ action' = "RETURN")
       => (/\ Len(passes') = 1
           /\ passes'[1].kind = "all"
           /\ passes'[1].drawn = DOMAIN doors
           /\ state' = "SELECTING"
           /\ selected_door' = selected_door
           /\ \A i \in DOMAIN doors : Visual(doors'[i]) = Visual(doors[i])
           /\ Selected = {selected_door}
           /\ doors'[selected_door'].is_open
           /\ doors'[selected_door'].pct_open = 100)]_vars

\* C27: a step that handles a directional action, OPEN, REVEAL, RESTART or
\* QUIT while the state is IN_PROGRESS changes neither the state nor the
\* cursor nor any field of any door.
C27_InProgressFrame ==
    [][(/\ pc = "foreach"
        /\ state = "IN_PROGRESS"
        /\ action' \in Actions \ {"RETURN"})
       => (/\ state' = "IN_PROGRESS"
           /\ selected_door' = selected_door
           /\ doors' = doors)]_vars

\* C28: a step that handles a directional action, OPEN, RETURN or REVEAL
\* while the state is ALL_REVEALED changes neither the state nor the cursor
\* nor any field of any door.
C28_AllRevealedFrame ==
    [][(/\ pc = "foreach"
        /\ state = "ALL_REVEALED"
        /\ action' \in Actions \ {"RESTART", "QUIT"})
       => (/\ state' = "ALL_REVEALED"
           /\ selected_door' = selected_door
           /\ doors' = doors)]_vars

\* C29: when REVEAL is handled, the redraw passes of _animate_open_all are
\* one before the sweep, one for each of the 20 ticks and one at the end; in
\* every pass every door has the is_open and the is_selected it had before;
\* a door that was open is revealed from the first pass on and keeps its
\* pct_open; at tick k every door that was not open has pct_open = 5 * k;
\* and when the state becomes ALL_REVEALED every door is revealed.
C29_RevealAll ==
    [][/\ (SelectingStep /\ action' = "REVEAL")
            => (/\ Len(passes') = 22
                /\ \A d \in DOMAIN doors, k \in 1..22 :
                     LET at == passes'[k].doors[d]
                     IN  /\ at.is_open = doors[d].is_open
                         /\ at.is_selected = doors[d].is_selected
                         /\ doors[d].is_open
                              => (at.is_revealed
                                  /\ at.pct_open = doors[d].pct_open)
                         /\ (~doors[d].is_open /\ k \in 2..21)
                              => at.pct_open = 5 * (k - 1)
                /\ \A d \in DOMAIN doors :
                     /\ doors'[d].is_open = doors[d].is_open
                     /\ doors'[d].is_selected = doors[d].is_selected
                /\ state' = "ALL_REVEALED")
       /\ (state # "ALL_REVEALED" /\ state' = "ALL_REVEALED")
            => \A d \in DOMAIN doors : doors'[d].is_revealed]_vars

\* C29 witness: on the 2 x 2 grid REVEAL was handled with doors 0 and 3
\* open and door 3 selected; at tick 10 doors 1 and 2 were half open and
\* not yet revealed, doors 0 and 3 already revealed
C29_Witness ==
    /\ action = "REVEAL"
    /\ state = "ALL_REVEALED"
    /\ Len(passes) = 22
    /\ selected_door = 3
    /\ {d \in DOMAIN doors : doors[d].is_open} = {0, 3}
    /\ \A d \in {1, 2} :
         /\ passes[11].doors[d].pct_open = 50
         /\ ~passes[11].doors[d].is_revealed
    /\ \A d \in {0, 3} : passes[11].doors[d].is_revealed

\* the doors that are hidden
Hidden(ds) == {d \in DOMAIN ds : ds[d].is_hidden}

\* C30: _animate_intro starts with every door hidden and all num_doors
\* indices to show; every step of its loop un-hides exactly one door, a
\* door that was hidden and whose index was still to show, draws that door
\* and no other, and removes its index, so that the doors still hidden are
\* the indices still to show; the loop is left when no door is hidden; and
\* no step of run() hides a door that is not hidden.
C30_Intro ==
    [][/\ (pc # "intro" /\ pc' = "intro")
            => (/\ Hidden(doors') = DOMAIN doors
                /\ intro_show_list' = DOMAIN doors
                /\ Cardinality(intro_show_list')
                     = NumDoors(doors_horiz, doors_vert))
       /\ (pc = "intro" /\ pc' = "intro")
            => (/\ Cardinality(Hidden(doors) \ Hidden(doors')) = 1
                /\ Hidden(doors') \subseteq Hidden(doors)
                /\ Hidden(doors') = intro_show_list'
                /\ Cardinality(intro_show_list')
                     = Cardinality(intro_show_list) - 1
                /\ Len(passes') = 1
                /\ passes'[1].drawn = Hidden(doors) \ Hidden(doors'))
       /\ (pc = "intro" /\ pc' # "intro")
            => (Hidden(doors) = {} /\ intro_show_list = {})
       /\ Hidden(doors') \subseteq Hidden(doors)]_vars

\* C30 witness: on the 2 x 2 grid three steps of the intro have shown doors
\* 3, 2 and 1, the last one drawn alone, and door 0 is still hidden
C30_Witness ==
    /\ pc = "intro"
    /\ start_hidden
    /\ Cardinality(DOMAIN doors) = 4
    /\ Hidden(doors) = {0}
    /\ intro_show_list = {0}
    /\ Len(passes) = 1
    /\ passes[1].drawn = {1}

\* C31: in every state every door's pct_open is an integer of 0..100, and
\* so is every pct_open an animation rendered on the way (the frames of
\* _animate_open, the doors at each pass of _animate_open_all, in the state
\* that follows the animation); and as long as the game has not left START
\* every door's pct_open is 0.
C31_PctOpen ==
    /\ \A d \in DOMAIN doors : doors[d].pct_open \in 0..100
    /\ \A k \in 1..Len(frames) : frames[k] \in 0..100
    /\ sound = "reveal_all"
         => \A k \in 1..Len(passes) :
               \A d \in DOMAIN doors : passes[k].doors[d].pct_open \in 0..100
    /\ (pc = "new" \/ state = "START")
         => \A d \in DOMAIN doors : doors[d].pct_open = 0

\* C31 witness: on the 2 x 2 grid the selected door was opened through the
\* fifty frames 2, 4, ..., 100 and the other doors are still at 0
C31_Witness ==
    /\ state = "IN_PROGRESS"
    /\ action = "OPEN"
    /\ Cardinality(DOMAIN doors) = 4
    /\ Len(frames) = 50
    /\ frames[1] = 2 /\ frames[50] = 100
    /\ doors[selected_door].pct_open = 100
    /\ \A d \in DOMAIN doors \ {selected_door} : doors[d].pct_open = 0

\* C32: no step of a game closes a door that is open; the open cue is
\* played and the frames of _animate_open are drawn only by a step that
\* handles OPEN on a selected door that is not open, and that step leaves
\* the door open; so cue and animation run at most once for a door.
C32_OpenOnce ==
    [][/\ \A d \in DOMAIN doors : doors[d].is_open => doors'[d].is_open
       /\ ((SelectingStep /\ action' = "OPEN" /\ sound' = "open")
           \/ (frames' # <<>> /\ frames' # frames))
            => (/\ SelectingStep
                /\ action' = "OPEN"
                /\ ~doors[selected_door].is_open
                /\ doors'[selected_door].is_open
                /\ sound' = "open"
                /\ Len(frames') = 50
                /\ \A d \in DOMAIN doors \ {selected_door} :
                     doors'[d] = doors[d])]_vars

\* C32 witness: OPEN was handled on a door that was open already: the oops
\* cue was played, no frame was drawn and the door is still open
C32_Witness ==
    /\ action = "OPEN"
    /\ sound = "oops"
    /\ frames = <<>>
    /\ doors[selected_door].is_open
    /\ Cardinality({d \in DOMAIN doors : doors[d].is_open}) = 2

\* C33: while the state is START, SELECTING or IN_PROGRESS no door has
\* is_revealed = TRUE.
C33_NotRevealed ==
    state \in {"START", "SELECTING", "IN_PROGRESS"}
        => \A d \in DOMAIN doors : ~doors[d].is_revealed

\* C34: when run() is about to read the event queue in SELECTING,
\* IN_PROGRESS or ALL_REVEALED, no door has is_updated = TRUE.
C34_CleanAtPoll ==
    (pc = "loop" /\ state \in {"SELECTING", "IN_PROGRESS", "ALL_REVEALED"})
        => Dirty(doors) = {}

\* C34 witness: the cursor was moved, which flagged two doors, and run() is
\* back at the read of the queue in SELECTING
C34_Witness ==
    /\ pc = "loop"
    /\ state = "SELECTING"
    /\ action \in Directions
    /\ Len(passes) = 1
    /\ Cardinality(passes[1].dirty) = 2
    /\ Dirty(doors) = {}

\* C35: between the steps of run(), a door with is_open has pct_open = 100,
\* and a door with is_revealed has pct_open = 100 or is_open.
C35_OpenIsFull ==
    \A d \in DOMAIN doors :
        /\ doors[d].is_open => doors[d].pct_open = 100
        /\ doors[d].is_revealed
             => (doors[d].pct_open = 100 \/ doors[d].is_open)

\* C35 witness: after reveal-all on the 2 x 2 grid one door is open and
\* revealed, the three others are revealed without being open
C35_Witness ==
    /\ state = "ALL_REVEALED"
    /\ Cardinality(DOMAIN doors) = 4
    /\ Cardinality({d \in DOMAIN doors : doors[d].is_open}) = 1
    /\ \A d \in DOMAIN doors :
         doors[d].is_revealed /\ doors[d].pct_open = 100

\* C36: for every grid of at least 1 x 1, every door and every direction,
\* the index _get_new_selection returns is one of 0..num_doors-1, and after
\* any sequence of moves the cursor is the index of a door.
C36_SelectionInRange ==
    /\ sel_action \in Directions
         => sel_result \in 0..(NumDoors(doors_horiz, doors_vert) - 1)
    /\ selected_door \in 0..(NumDoors(doors_horiz, doors_vert) - 1)
    /\ selected_door \in DOMAIN doors

\* C36 witness: on the MaxHoriz x MaxVert grid DOWN was asked for on the
\* last door, after the cursor was moved there, and the last door was
\* returned
C36_Witness ==
    /\ doors_horiz = MaxHoriz /\ doors_vert = MaxVert
    /\ selected_door = NumDoors(doors_horiz, doors_vert) - 1
    /\ sel_action = "DOWN"
    /\ sel_result = selected_door

\* C39: _show_image ends without an exception and has blitted the image:
\* an image of the size of the screen unscaled at (0, 0), an image of
\* another size scaled to at most the width and the height of the screen
\* and centered.
C39_ShowImage ==
    image_pc \in {"returned", "raised"}
        => /\ image_error = NoImageError
           /\ blit.done
           /\ (img.width = screen.width /\ img.height = screen.height)
                => (/\ blit.x = 0 /\ blit.y = 0
                    /\ blit.width = img.width /\ blit.height = img.height)
           /\ blit.width <= screen.width
           /\ blit.height <= screen.height
           /\ 2 * blit.x \in {screen.width - blit.width,
                               screen.width - blit.width - 1}
           /\ 2 * blit.y \in {screen.height - blit.height,
                               screen.height - blit.height - 1}

\* the backticks of text t
Backticks(t) == {k \in DOMAIN t : t[k] = Backtick}

\* the sum of the heights of the first k surfaces of ts
RECURSIVE HeightsBefore(_, _)
HeightsBefore(ts, k) ==
    IF k = 0 THEN 0 ELSE HeightsBefore(ts, k - 1) + ts[k].height

\* C40: when render_surface returns, the text was split at each backtick
\* (one line more than backticks, no backtick in a line, as many characters
\* in the lines as the text has besides backticks); the surface is as wide
\* as the widest rendered line and as high as the line heights together
\* plus line_spacing between two lines; every line was blitted, in order,
\* line k (from 0) at y = the heights of the lines before it plus
\* k * line_spacing.
C40_RenderSurface ==
    text_pc = "returned"
        => LET n == Len(text_surfaces)
           IN  /\ Len(text_lines) = Cardinality(Backticks(text)) + 1
               /\ \A k \in 1..Len(text_lines) : Backticks(text_lines[k]) = {}
               /\ HeightsBefore([k \in 1..Len(text_lines) |->
                                    [height |-> Len(text_lines[k])]],
                                Len(text_lines))
                    = Len(text) - Cardinality(Backticks(text))
               /\ n = Len(text_lines)
               /\ text_surface.made
               /\ \A k \in 1..n : text_surface.width >= text_surfaces[k].width
               /\ \E k \in 1..n : text_surface.width = text_surfaces[k].width
               /\ text_surface.height
                    = HeightsBefore(text_surfaces, n) + (n - 1) * line_spacing
               /\ Len(text_surface.blits) = n
               /\ \A k \in 1..n :
                    text_surface.blits[k].y
                        = HeightsBefore(text_surfaces, k - 1)
                            + (k - 1) * line_spacing

\* C40 witness: the text of an a and a backtick was rendered with a spacing
\* of 2 as two lines of 3 x 1 and 1 x 2 on a surface of 3 x 5, the second
\* line at y = 3
C40_Witness ==
    /\ text_pc = "returned"
    /\ text = <<"a", Backtick>>
    /\ line_spacing = 2
    /\ text_lines = << <<"a">>, <<>> >>
    /\ text_surfaces = <<[width |-> 3, height |-> 1],
                         [width |-> 1, height |-> 2]>>
    /\ text_surface.width = 3
    /\ text_surface.height = 5
    /\ text_surface.blits[2].y = 3

\* a quit event waits in the event queue of the media player
QuitIssued == run_pc \notin {"off", "board"} /\ CheckForQuit(pending)

\* C37: whenever a quit event (K_ESCAPE, BTN_START) waits in the queue
\* while the media player is on, run() eventually returns False and main()
\* goes on to the activity board; and whenever run() has returned True,
\* every photo it found was shown.
C37_QuitHonoured ==
    /\ QuitIssued ~> (run_pc = "board" /\ run_result = "False")
    /\ []((run_pc = "returned" /\ run_result = "True")
            => shown = DOMAIN photos)

\* date a is not after date b, both as month and day
NotAfter(a, b) == a[1] < b[1] \/ (a[1] = b[1] /\ a[2] <= b[2])

\* the items of the announcement file whose range holds the date of the day
ItemsInRange ==
    {k \in DOMAIN announcement_data :
        /\ NotAfter(announcement_data[k].start_date, today)
        /\ NotAfter(today, announcement_data[k].end_date)}

\* C38: an announcement on the screen is an item of the file whose range
\* holds the date of the day, the first and the last day of the range
\* included; and once run() has read the file its list of announcements
\* holds the items in range and no other, in the order of the file.
C38_InRange ==
    /\ display.kind = "announcement"
         => \E k \in ItemsInRange :
               /\ display.start_date = Strptime(announcement_data[k].start_date)
               /\ display.end_date = Strptime(announcement_data[k].end_date)
    /\ run_pc \notin {"off", "main", "run"}
         => /\ Len(announcements) = Cardinality(ItemsInRange)
            /\ \A k \in ItemsInRange :
                  \E j \in DOMAIN announcements :
                     /\ announcements[j].start_date
                          = Strptime(announcement_data[k].start_date)
                     /\ announcements[j].end_date
                          = Strptime(announcement_data[k].end_date)
    /\ ItemsInRange = {} => display.kind # "announcement"

\* C38 witness: on 2/1, the last day of the first item of the file and the
\* first day of the second, the second item is on the screen
C38_Witness ==
    /\ today = <<2, 1>>
    /\ Len(announcement_data) = 2
    /\ ItemsInRange = {1, 2}
    /\ display.kind = "announcement"
    /\ display.start_date = Strptime(<<2, 1>>)
    /\ display.end_date = Strptime(<<2, 2>>)

====
